---- MODULE Spec2Model ----
(***************************************************************************)
(* State-machine model of the reconnaissance engine of recontronic-cli:    *)
(* subdomain aggregation (pkg/recon/subdomain.go), liveness verification,  *)
(* DNS deep enumeration and the timestamped result store.                  *)
(***************************************************************************)
EXTENDS Integers, Sequences, FiniteSets, TLC

VARIABLES
    \* ---- subdomain enumeration (runReconSubdomain / EnumerateSubdomains)
    aggPc,          \* position of the enumeration command
    toolAvail,      \* environment: which external executables are on the PATH
    sources,        \* the []SubdomainSource handed to EnumerateSubdomains
    srcIdx,         \* index of the range loop over sources (1-based)
    results,        \* *SubdomainResults under construction
    subdomainMap,   \* map[string]*Subdomain
    enumErr,        \* per source: "ok" | "error" outcome of Enumerate (history)
    reports,        \* history: the cleaned list each successful source returned
    \* ---- result store (SaveResults / LoadLatestResult)
    files,          \* results directory of the domain: filename -> content
    clock,          \* wall clock, whole seconds
    saves,          \* history: number of SaveResults calls made
    lastOp,         \* history: the last store call, its arguments and what it returned
    \* ---- one host probe (VerifySubdomain / resolveDNS / probeHTTP)
    probePc,        \* position inside VerifySubdomain
    probeEnv,       \* environment: what the resolver and the web servers answer
    probeResult,    \* *VerificationResult under construction
    httpResult,     \* *HTTPResult under construction inside probeHTTP
    protoIdx,       \* index of the range loop over protocols (1-based)
    httpLog,        \* history: the protocol of every HTTP request sent
    \* ---- verification run (runReconVerify / VerifySubdomains)
    verPc,          \* position of the verification command
    concurrency,    \* options.Concurrency (the --concurrency flag)
    snapshot,       \* the SubdomainResults loaded by LoadLatestResult
    batchIdx,       \* loop variable i of the batch loop (0-based)
    workers,        \* per goroutine of the running VerifySubdomains call: its position
    semaphore,      \* number of tokens in the semaphore channel
    resultsChan,    \* buffered results channel: sequence of [index, result]
    chanClosed,     \* close(resultsChan) has run
    verified,       \* the `verified` slice of the running VerifySubdomains call
    progress,       \* runReconVerify's verifiedSubdomains, verified and alive
    \* ---- DNS records of one host (queryDNSInfo)
    dnsStep,        \* position inside queryDNSInfo: index of the next query block
    dnsOptions,     \* DNSEnumerationOptions: RecordTypes, CheckTakeover
    dnsInfo,        \* the DNSInfo under construction
    cnameAnswer,    \* history: what LookupCNAME returned ("" = error or not asked)
    \* ---- result queries (QuerySubdomains)
    queryOptions,   \* the QueryOptions of the call
    queryOut,       \* what the call returned: [err, hosts]
    \* ---- one run of a recon command (runReconSubdomain / Verify / DNS)
    cmdName,        \* which command runs: "subdomain" | "verify" | "dns"
    cmdTarget,      \* args[0], the target domain as typed
    cmdPc,          \* position of the command
    cmdWork,        \* history: the work started so far ("load", "process", "probe", "write")
    cmdReturn,      \* what RunE returned: Nil while running, "" for nil, or the error
    tree,           \* the results directory: domain directory name -> its files
    \* ---- DNS enumeration of a snapshot (EnumerateDNS, SaveDNSResults)
    denPc,          \* position of EnumerateDNS and of the save that follows it
    denOptions,     \* DNSEnumerationOptions after the defaults
    denCtx,         \* the context.Context handed to EnumerateDNS
    denHosts,       \* subdomainsToQuery
    denWorkers,     \* per goroutine: "waiting" | "querying" | "done"
    denSem,         \* slots of the semaphore channel in use
    denResults,     \* the DNSResults under construction
    denAsked,       \* history: the lookups issued, [host, type, failed, deadline]
    denMu,          \* the goroutines inside mu.Lock() ... mu.Unlock()
    denLocal,       \* per goroutine: its info and the slice its append read
    \* ---- functions called on their own
    sumRecords,     \* calculateDNSSummary: the records argument
    summary,        \* calculateDNSSummary: the DNSSummary returned (Nil before the call)
    selLoaded,      \* what LoadLatestResult(domain, "subdomains") returned (Nil before)
    selLatest,      \* what GetLatestSubdomainResult(domain) returned (Nil before)
    exportOut,      \* runReconResultsExport: [err, written, exportedCount] (Nil before)
    normRaw,        \* CleanDomains / RemoveWildcards: the domains argument
    normOut         \* what the two functions returned: [removed, cleaned] (Nil before)

aggVars   == <<aggPc, toolAvail, sources, srcIdx, results, subdomainMap, enumErr, reports>>
storeVars == <<files, clock, saves, lastOp>>
probeVars == <<probePc, probeEnv, probeResult, httpResult, protoIdx, httpLog>>
verVars   == <<verPc, concurrency, snapshot, batchIdx, workers, semaphore, resultsChan,
               chanClosed, verified, progress>>
dnsVars   == <<dnsStep, dnsOptions, dnsInfo, cnameAnswer>>
queryVars == <<queryOptions, queryOut>>
cmdVars   == <<cmdName, cmdTarget, cmdPc, cmdWork, cmdReturn, tree>>
denVars   == <<denPc, denOptions, denCtx, denHosts, denWorkers, denSem, denResults,
               denAsked, denMu, denLocal>>
sumVars   == <<sumRecords, summary>>
selVars   == <<selLoaded, selLatest>>
expVars   == <<exportOut>>
normVars  == <<normRaw, normOut>>
fnVars    == <<sumVars, selVars, expVars, normVars>>
extVars   == <<queryVars, cmdVars, denVars, fnVars>>
nonFnVars == <<queryVars, cmdVars, denVars, aggVars, storeVars, probeVars, verVars, dnsVars>>
vars      == <<aggVars, storeVars, probeVars, verVars, dnsVars, extVars>>

-----------------------------------------------------------------------------
(* Strings.  Go strings are modelled by TLA+ strings; a byte is a string of *)
(* length one and bytes are ordered by their ASCII code.                    *)

Char(s, i) == SubSeq(s, i, i)

Tail1(s) == SubSeq(s, 2, Len(s))

\* the bytes that occur in the model, in ASCII order
Ascii == " *-.0123456789ABCDEFGHIJKLMNOPQRSTUVWXYZ_abcdefghijklmnopqrstuvwxyz"

AsciiChars == {Char(Ascii, i) : i \in 1..Len(Ascii)}

OrdTable == [c \in AsciiChars |-> CHOOSE i \in 1..Len(Ascii) : Char(Ascii, i) = c]

Ord(c) == OrdTable[c]

UpperAlpha == "ABCDEFGHIJKLMNOPQRSTUVWXYZ"
LowerAlpha == "abcdefghijklmnopqrstuvwxyz"

LowerTable ==
    [c \in AsciiChars |->
        IF \E i \in 1..Len(UpperAlpha) : Char(UpperAlpha, i) = c
        THEN Char(LowerAlpha, CHOOSE i \in 1..Len(UpperAlpha) : Char(UpperAlpha, i) = c)
        ELSE c]

LowerChar(c) == LowerTable[c]

\* strings.ToLower
RECURSIVE ToLower(_)
ToLower(s) == IF s = "" THEN "" ELSE LowerChar(Char(s, 1)) \o ToLower(Tail1(s))

\* strings.TrimPrefix
TrimPrefix(s, p) ==
    IF Len(s) >= Len(p) /\ SubSeq(s, 1, Len(p)) = p
    THEN SubSeq(s, Len(p) + 1, Len(s))
    ELSE s

\* strings.TrimSuffix
TrimSuffix(s, p) ==
    IF Len(s) >= Len(p) /\ SubSeq(s, Len(s) - Len(p) + 1, Len(s)) = p
    THEN SubSeq(s, 1, Len(s) - Len(p))
    ELSE s

\* strings.TrimSpace (the only white space of the model is the blank)
RECURSIVE TrimLeft(_)
TrimLeft(s) == IF s # "" /\ Char(s, 1) = " " THEN TrimLeft(Tail1(s)) ELSE s

RECURSIVE TrimRight(_)
TrimRight(s) ==
    IF s # "" /\ Char(s, Len(s)) = " " THEN TrimRight(SubSeq(s, 1, Len(s) - 1)) ELSE s

TrimSpace(s) == TrimRight(TrimLeft(s))

\* strings.Contains
Contains(s, sub) ==
    \E i \in 1..(Len(s) - Len(sub) + 1) : SubSeq(s, i, i + Len(sub) - 1) = sub

\* Go's string comparison a > b: bytewise lexicographic
RECURSIVE StrGreater(_, _)
StrGreater(a, b) ==
    IF a = "" THEN FALSE
    ELSE IF b = "" THEN TRUE
    ELSE IF Char(a, 1) # Char(b, 1) THEN Ord(Char(a, 1)) > Ord(Char(b, 1))
    ELSE StrGreater(Tail1(a), Tail1(b))

\* the elements of a sequence
Range(q) == {q[i] : i \in DOMAIN q}

\* all sequences over S of length at most n
SeqsUpTo(S, n) == UNION {[1..k -> S] : k \in 0..n}

\* all orderings of a finite set
Perms(S) == {q \in [1..Cardinality(S) -> S] : Range(q) = S}

-----------------------------------------------------------------------------
(* Bounds and input sets *)

\* longest raw name list one source's Enumerate returns
MaxNames == 2

\* raw names as the external tools print them
RawNames == {"a.ex", "A.EX", "*.b.ex", " a.ex ", "*. "}

RawLists == SeqsUpTo(RawNames, MaxNames)

Domain == "ex"

\* Go's nil pointer
Nil == [nil |-> TRUE]

-----------------------------------------------------------------------------
(* pkg/recon utils: CleanDomains and its three passes *)

RECURSIVE RemoveWildcards(_)
RemoveWildcards(domains) ==
    IF domains = <<>> THEN <<>>
    ELSE LET cleaned == TrimSpace(TrimPrefix(Head(domains), "*."))
         IN  (IF cleaned # "" THEN <<cleaned>> ELSE <<>>) \o RemoveWildcards(Tail(domains))

RECURSIVE DedupFrom(_, _)
DedupFrom(items, seen) ==
    IF items = <<>> THEN <<>>
    ELSE LET key == ToLower(Head(items))
         IN  IF key \notin seen
             THEN <<Head(items)>> \o DedupFrom(Tail(items), seen \cup {key})
             ELSE DedupFrom(Tail(items), seen)

Deduplicate(items) == DedupFrom(items, {})

Swap(r, i, j) == [r EXCEPT ![i] = r[j], ![j] = r[i]]

RECURSIVE SortInner(_, _, _)
SortInner(r, i, j) ==
    IF j > Len(r) THEN r
    ELSE SortInner(IF StrGreater(ToLower(r[i]), ToLower(r[j])) THEN Swap(r, i, j) ELSE r,
                   i, j + 1)

RECURSIVE SortOuter(_, _)
SortOuter(r, i) == IF i > Len(r) THEN r ELSE SortOuter(SortInner(r, i, i + 1), i + 1)

SortDomains(domains) == SortOuter(domains, 1)

CleanDomains(domains) == SortDomains(Deduplicate(RemoveWildcards(domains)))

\* what CleanDomains makes of the raw lists a source can return
CleanedReports == {CleanDomains(raw) : raw \in RawLists}

-----------------------------------------------------------------------------
(* Sources *)

CrtSh == "crt.sh"
Tools == {"subfinder", "assetfinder", "amass"}

\* SubdomainSource.IsAvailable: crt.sh always, the others by exec.LookPath
IsAvailable(source) == IF source = CrtSh THEN TRUE ELSE toolAvail[source]

KeepAvailable(list) == SelectSeq(list, IsAvailable)

\* runReconSubdomain: the sources it detects, in its order
DetectedSources == KeepAvailable(<<CrtSh, "subfinder", "assetfinder", "amass">>)

\* source lists a direct caller of EnumerateSubdomains passes
SourceLists == {<<>>, <<"subfinder", "amass">>, <<"amass", CrtSh, "subfinder">>}

\* map assignment m[k] = v
MapPut(m, k, v) == [x \in DOMAIN m \cup {k} |-> IF x = k THEN v ELSE m[x]]

EmptyMap == [x \in {} |-> Nil]

NewResults ==
    [Domain |-> Domain, Timestamp |-> clock, SourcesUsed |-> <<>>, TotalUnique |-> 0,
     Subdomains |-> <<>>, Summary |-> EmptyMap]

\* the merge loop of EnumerateSubdomains over one source's cleaned names
RECURSIVE Merge(_, _, _)
Merge(m, subs, sourceName) ==
    IF subs = <<>> THEN m
    ELSE LET sub == Head(subs)
             key == sub
         IN  IF key \in DOMAIN m
             THEN Merge([m EXCEPT ![key].DiscoveredBy = Append(@, sourceName)],
                        Tail(subs), sourceName)
             ELSE Merge(MapPut(m, key, [Name |-> sub, DiscoveredBy |-> <<sourceName>>,
                                        FirstSeen |-> clock, Verified |-> Nil]),
                        Tail(subs), sourceName)

-----------------------------------------------------------------------------
(* Result store: SaveResults *)

Digits == "0123456789"

Digit2(n) == Char(Digits, (n \div 10) + 1) \o Char(Digits, (n % 10) + 1)

\* time.Format("20060102_150405") of the instant t seconds after 2025-01-01 12:00:00
FormatTimestamp(t) == "20250101_12" \o Digit2((t \div 60) % 60) \o Digit2(t % 60)

DigitVal(c) == (CHOOSE i \in 1..Len(Digits) : Char(Digits, i) = c) - 1

Num2(s, i) == DigitVal(Char(s, i)) * 10 + DigitVal(Char(s, i + 1))

FileName(toolName, t) == toolName \o "_" \o FormatTimestamp(t) \o ".json"

SaveOutcomes == {"ok", "failed_clean", "failed_partial"}

Partial(data) == [partial |-> TRUE, of |-> data]

\* the directory after SaveResults(domain, toolName, data, FormatJSON) ran at time t
SaveResults(dir, toolName, t, data, outcome) ==
    CASE outcome = "ok"             -> MapPut(dir, FileName(toolName, t), data)
      [] outcome = "failed_partial" -> MapPut(dir, FileName(toolName, t), Partial(data))
      [] OTHER                      -> dir

\* a file whose content is not the complete JSON document of a snapshot
IsPartial(content) == "partial" \in DOMAIN content

HasPrefix(s, p) == Len(s) >= Len(p) /\ SubSeq(s, 1, Len(p)) = p

HasSuffix(s, p) == Len(s) >= Len(p) /\ SubSeq(s, Len(s) - Len(p) + 1, Len(s)) = p

\* sort.Strings over a set of names
SortStrings(S) ==
    CHOOSE q \in Perms(S) : \A i, j \in DOMAIN q : i < j => ~StrGreater(q[i], q[j])

\* filepath.Glob(domainDir/<toolName>_*.json): the matching names, sorted
Glob(dir, toolName) ==
    SortStrings({f \in DOMAIN dir : HasPrefix(f, toolName \o "_") /\ HasSuffix(f, ".json")})

LoadOldestResult(dir, toolName) ==
    LET matches == Glob(dir, toolName)
    IN  IF Len(matches) = 0 THEN [err |-> "no results found", data |-> Nil]
        ELSE IF IsPartial(dir[matches[1]])
        THEN [err |-> "failed to unmarshal results", data |-> Nil]
        ELSE [err |-> "", data |-> dir[matches[1]]]

\* LoadLatestResult: [err, data]
LoadLatestResult(dir, toolName) ==
    LET matches == Glob(dir, toolName)
    IN  IF Len(matches) = 0 THEN [err |-> "no results found", data |-> Nil]
        ELSE LET latestFile == matches[Len(matches)]
             IN  IF IsPartial(dir[latestFile])
                 THEN [err |-> "failed to unmarshal results", data |-> Nil]
                 ELSE [err |-> "", data |-> dir[latestFile]]

-----------------------------------------------------------------------------
(* Subdomain enumeration: runReconSubdomain and EnumerateSubdomains *)

InitAgg ==
    /\ aggPc = "start"
    /\ toolAvail \in [Tools -> BOOLEAN]
    /\ sources = <<>>
    /\ srcIdx = 1
    /\ results = Nil
    /\ subdomainMap = EmptyMap
    /\ enumErr = EmptyMap
    /\ reports = EmptyMap

NoOp == [op |-> "none", tool |-> "", outcome |-> "", data |-> Nil]

SaveOp(toolName, outcome, data) ==
    [op |-> "save", tool |-> toolName, outcome |-> outcome, data |-> data]

LoadOp(toolName, r) == [op |-> "load", tool |-> toolName, outcome |-> r.err, data |-> r.data]

InitStore ==
    /\ files = EmptyMap
    /\ clock = 0
    /\ saves = 0
    /\ lastOp = NoOp

IdleAgg ==
    /\ aggPc = "idle"
    /\ toolAvail = [t \in Tools |-> FALSE]
    /\ sources = <<>>
    /\ srcIdx = 1
    /\ results = Nil
    /\ subdomainMap = EmptyMap
    /\ enumErr = EmptyMap
    /\ reports = EmptyMap

\* recon subdomain <domain>: detect the sources and enter EnumerateSubdomains
RunReconSubdomain ==
    /\ aggPc = "start"
    /\ sources' = DetectedSources
    /\ results' = NewResults
    /\ aggPc' = IF Len(DetectedSources) = 0 THEN "no_tools" ELSE "cmd_loop"
    /\ UNCHANGED <<toolAvail, srcIdx, subdomainMap, enumErr, reports, storeVars, probeVars, verVars, dnsVars, extVars>>

\* a direct call of the exported EnumerateSubdomains with some source list
CallEnumerateSubdomains ==
    /\ aggPc = "start"
    /\ \E list \in SourceLists : sources' = list
    /\ results' = NewResults
    /\ aggPc' = "lib_loop"
    /\ UNCHANGED <<toolAvail, srcIdx, subdomainMap, enumErr, reports, storeVars, probeVars, verVars, dnsVars, extVars>>

InLoop == aggPc \in {"cmd_loop", "lib_loop"} /\ srcIdx <= Len(sources)

\* loop body, lines 50-52: the source is not available
SkipSource ==
    /\ InLoop
    /\ ~IsAvailable(sources[srcIdx])
    /\ srcIdx' = srcIdx + 1
    /\ UNCHANGED <<aggPc, toolAvail, sources, results, subdomainMap, enumErr, reports, storeVars, probeVars, verVars, dnsVars, extVars>>

DropOnEnumerateError(m) == EmptyMap

\* lines 65-69: the error is printed and the loop continues; nothing is merged
\* and what the sources before it reported stays
AfterEnumerateError(m) == m

\* loop body, lines 54-69: Enumerate returned an error
SourceFails ==
    /\ InLoop
    /\ IsAvailable(sources[srcIdx])
    /\ LET sourceName == sources[srcIdx]
       IN  /\ results' = [results EXCEPT
                            !.SourcesUsed = Append(@, sourceName)]
           /\ enumErr' = MapPut(enumErr, sourceName, "error")
    /\ subdomainMap' = AfterEnumerateError(subdomainMap)
    /\ srcIdx' = srcIdx + 1
    /\ UNCHANGED <<reports, aggPc, toolAvail, sources, storeVars, probeVars, verVars, dnsVars, extVars>>

\* loop body, lines 54-91: Enumerate returned a list
SourceSucceeds ==
    /\ InLoop
    /\ IsAvailable(sources[srcIdx])
    /\ \E subdomains \in CleanedReports :
         LET sourceName == sources[srcIdx]
         IN  /\ results' = [results EXCEPT
                              !.SourcesUsed = Append(@, sourceName),
                              !.Summary = MapPut(@, sourceName, Len(subdomains))]
             /\ subdomainMap' = Merge(subdomainMap, subdomains, sourceName)
             /\ enumErr' = MapPut(enumErr, sourceName, "ok")
             /\ reports' = MapPut(reports, sourceName, subdomains)
    /\ srcIdx' = srcIdx + 1
    /\ UNCHANGED <<aggPc, toolAvail, sources, storeVars, probeVars, verVars, dnsVars, extVars>>

\* lines 94-115: map to slice (Go ranges over a map in any order), sort, rebuild
FinishEnumerate ==
    /\ aggPc \in {"cmd_loop", "lib_loop"}
    /\ srcIdx > Len(sources)
    /\ \E order \in Perms(DOMAIN subdomainMap) :
         LET names       == [i \in DOMAIN order |-> subdomainMap[order[i]].Name]
             sortedNames == SortDomains(names)
             sorted      == [i \in DOMAIN sortedNames |-> subdomainMap[sortedNames[i]]]
         IN  results' = [results EXCEPT !.Subdomains = sorted,
                                        !.TotalUnique = Len(sorted)]
    /\ aggPc' = IF aggPc = "cmd_loop" THEN "cmd_save" ELSE "returned"
    /\ UNCHANGED <<toolAvail, sources, srcIdx, subdomainMap, enumErr, reports, storeVars, probeVars, verVars, dnsVars, extVars>>

\* runReconSubdomain lines 118-122: persist the snapshot
SaveEnumeration ==
    /\ aggPc = "cmd_save"
    /\ \E outcome \in SaveOutcomes :
         /\ files' = SaveResults(files, "subdomains", clock, results, outcome)
         /\ lastOp' = SaveOp("subdomains", outcome, results)
         /\ aggPc' = IF outcome = "ok" THEN "done" ELSE "save_failed"
    /\ saves' = saves + 1
    /\ UNCHANGED <<toolAvail, sources, srcIdx, results, subdomainMap, enumErr, reports, clock,
                   probeVars, verVars, dnsVars, extVars>>

NextEnum ==
    \/ RunReconSubdomain
    \/ CallEnumerateSubdomains
    \/ SkipSource
    \/ SourceFails
    \/ SourceSucceeds
    \/ FinishEnumerate
    \/ SaveEnumeration

-----------------------------------------------------------------------------
(* Liveness verifier, one host: VerifySubdomain, resolveDNS, probeHTTP *)

\* longest redirect chain a modelled web server issues before its final answer
MaxChain == 4

\* CheckRedirect stops following once len(via) reaches this
RedirectCap == 3

\* A web server on one protocol: it answers `hops` requests with a redirect and
\* then ends with a final response, with a transport error (refused connection,
\* timeout, TLS failure), or never ends (a redirect loop).
Servers == [hops : 0..MaxChain, ends : {"response", "error"}]
               \cup {[hops |-> 0, ends |-> "loop"]}

\* the answer to the k-th request of one client.Do call
Respond(server, k) ==
    IF server.ends = "loop" \/ k <= server.hops THEN "redirect"
    ELSE IF server.ends = "response" THEN "final"
    ELSE "error"

\* the CheckRedirect policy of probeHTTP's client: TRUE = http.ErrUseLastResponse
CheckRedirect(lenVia) == lenVia >= RedirectCap

\* http.Client.Do: `via` requests were made so far; each redirect is passed to
\* CheckRedirect with the requests made already before the next one is sent
RECURSIVE ClientDo(_, _)
ClientDo(server, via) ==
    LET answer == Respond(server, via + 1)
    IN  IF answer = "error"
        THEN [err |-> TRUE, StatusCode |-> 0, requests |-> via + 1]
        ELSE IF answer = "redirect" /\ ~CheckRedirect(via + 1)
        THEN ClientDo(server, via + 1)
        ELSE [err |-> FALSE,
              StatusCode |-> IF answer = "redirect" THEN 302 ELSE 200,
              requests |-> via + 1]

DNSAnswers == {"error", "empty", "ok"}

ProbeEnvs == [dns : DNSAnswers, https : Servers, http : Servers]

\* resolveDNS
resolveDNS(answer) ==
    CASE answer = "error" -> [Resolves |-> FALSE, IPs |-> <<>>, Error |-> "lookup failed"]
      [] answer = "empty" -> [Resolves |-> FALSE, IPs |-> <<>>,
                              Error |-> "no IP addresses found"]
      [] OTHER            -> [Resolves |-> TRUE, IPs |-> <<"192.0.2.1">>, Error |-> ""]

Protocols == <<"https", "http">>

NewHTTPResult == [Accessible |-> FALSE, URL |-> "", StatusCode |-> 0, Redirect |-> FALSE]

\* probeHTTP lines 216-238: the result after client.Do answered without error
HTTPSuccess(protocol, subdomain, resp) ==
    [Accessible |-> TRUE, URL |-> protocol \o "://" \o subdomain,
     StatusCode |-> resp.StatusCode,
     Redirect |-> (resp.StatusCode >= 300 /\ resp.StatusCode < 400)]

\* probeHTTP: the range loop over the protocols from index i on
RECURSIVE probeHTTPFrom(_, _, _)
probeHTTPFrom(subdomain, env, i) ==
    IF i > Len(Protocols) THEN NewHTTPResult
    ELSE LET resp == ClientDo(env[Protocols[i]], 0)
         IN  IF resp.err THEN probeHTTPFrom(subdomain, env, i + 1)
             ELSE HTTPSuccess(Protocols[i], subdomain, resp)

probeHTTP(subdomain, env) == probeHTTPFrom(subdomain, env, 1)

NewVerificationResult == [Status |-> "dead", DNS |-> Nil, HTTP |-> Nil]

\* VerifySubdomain lines 77-83
ClassifyAlways(result, http) == [result EXCEPT !.HTTP = http, !.Status = "alive"]

Classify(result, http) ==
    [result EXCEPT !.HTTP = http,
                   !.Status = IF http # Nil /\ http.Accessible THEN "alive" ELSE @]

\* VerifySubdomain as one function of the environment
VerifySubdomain(subdomain, env) ==
    LET dnsResult == resolveDNS(env.dns)
        result    == [NewVerificationResult EXCEPT !.DNS = dnsResult]
    IN  IF ~dnsResult.Resolves THEN [result EXCEPT !.Status = "dead"]
        ELSE Classify(result, probeHTTP(subdomain, env))

ProbedHost == "a.ex"

IdleProbe ==
    /\ probePc = "idle"
    /\ probeEnv = Nil
    /\ probeResult = Nil
    /\ httpResult = Nil
    /\ protoIdx = 1
    /\ httpLog = <<>>

InitProbe ==
    /\ probePc = "dns"
    /\ probeEnv \in ProbeEnvs
    /\ probeResult = NewVerificationResult
    /\ httpResult = Nil
    /\ protoIdx = 1
    /\ httpLog = <<>>

\* VerifySubdomain lines 66-73
ResolveDNS ==
    /\ probePc = "dns"
    /\ LET dnsResult == resolveDNS(probeEnv.dns)
       IN  /\ probeResult' = [probeResult EXCEPT !.DNS = dnsResult, !.Status = "dead"]
           /\ probePc' = IF dnsResult.Resolves THEN "http" ELSE "returned"
    /\ httpResult' = NewHTTPResult
    /\ UNCHANGED <<probeEnv, protoIdx, httpLog, aggVars, storeVars, verVars, dnsVars, extVars>>

\* probeHTTP lines 197-239: one iteration of the protocol loop
TryProtocol ==
    /\ probePc = "http"
    /\ protoIdx <= Len(Protocols)
    /\ ~httpResult.Accessible
    /\ LET protocol == Protocols[protoIdx]
           resp     == ClientDo(probeEnv[protocol], 0)
       IN  /\ httpLog' = httpLog \o [k \in 1..resp.requests |-> protocol]
           /\ httpResult' = IF resp.err THEN httpResult
                            ELSE HTTPSuccess(protocol, ProbedHost, resp)
    /\ protoIdx' = protoIdx + 1
    /\ UNCHANGED <<probePc, probeEnv, probeResult, aggVars, storeVars, verVars, dnsVars, extVars>>

\* probeHTTP returns (line 238 or 241) and VerifySubdomain classifies (77-83)
FinishProbe ==
    /\ probePc = "http"
    /\ httpResult.Accessible \/ protoIdx > Len(Protocols)
    /\ probeResult' = Classify(probeResult, httpResult)
    /\ probePc' = "returned"
    /\ UNCHANGED <<probeEnv, httpResult, protoIdx, httpLog, aggVars, storeVars, verVars, dnsVars, extVars>>

NextProbe ==
    \/ ResolveDNS
    \/ TryProtocol
    \/ FinishProbe

\* the step-wise probe and the function VerifySubdomain agree
ProbeMatchesFunction ==
    probePc = "returned" => probeResult = VerifySubdomain(ProbedHost, probeEnv)

-----------------------------------------------------------------------------
(* Verification run: runReconVerify and the worker pool of VerifySubdomains *)

\* most hosts in the snapshot a verification run loads
MaxHosts == 3

\* largest --concurrency value
MaxConcurrency == 2

HostName(i) == Char("abcdefgh", i) \o ".ex"

\* a snapshot as `recon subdomain` stores it: n hosts found by crt.sh
EnumeratedSnapshot(n) ==
    [Domain |-> Domain, Timestamp |-> 0, SourcesUsed |-> <<CrtSh>>, TotalUnique |-> n,
     Subdomains |-> [i \in 1..n |-> [Name |-> HostName(i), DiscoveredBy |-> <<CrtSh>>,
                                     FirstSeen |-> 0, Verified |-> Nil]],
     Summary |-> MapPut(EmptyMap, CrtSh, n)]

\* the network environments the pool's hosts are drawn from: DNS fails; HTTPS
\* answers; DNS resolves and both protocols refuse
PoolEnvs ==
    {[dns |-> "error", https |-> [hops |-> 0, ends |-> "error"],
                       http  |-> [hops |-> 0, ends |-> "error"]],
     [dns |-> "ok",    https |-> [hops |-> 0, ends |-> "response"],
                       http  |-> [hops |-> 0, ends |-> "error"]],
     [dns |-> "ok",    https |-> [hops |-> 0, ends |-> "error"],
                       http  |-> [hops |-> 0, ends |-> "error"]]}

IdleVerify ==
    /\ verPc = "idle"
    /\ concurrency = 0
    /\ snapshot = Nil
    /\ batchIdx = 0
    /\ workers = <<>>
    /\ semaphore = 0
    /\ resultsChan = <<>>
    /\ chanClosed = FALSE
    /\ verified = <<>>
    /\ progress = Nil

\* the results directory holds nothing, or one enumeration snapshot written at 0
InitVerify ==
    /\ verPc = "start"
    /\ concurrency \in 0..MaxConcurrency
    /\ snapshot = Nil
    /\ batchIdx = 0
    /\ workers = <<>>
    /\ semaphore = 0
    /\ resultsChan = <<>>
    /\ chanClosed = FALSE
    /\ verified = <<>>
    /\ progress = Nil
    /\ files \in {EmptyMap} \cup
                 {SaveResults(EmptyMap, "subdomains", 0, EnumeratedSnapshot(n), "ok") :
                     n \in 0..MaxHosts}
    /\ clock \in {0, 1}
    /\ saves = 0
    /\ lastOp = NoOp

NewProgress == [verifiedSubdomains |-> <<>>, verified |-> 0, alive |-> 0]

\* runReconVerify lines 47-91: load the latest snapshot, set up the options
RunReconVerify ==
    /\ verPc = "start"
    /\ LET r == LoadLatestResult(files, "subdomains")
       IN  /\ lastOp' = LoadOp("subdomains", r)
           /\ snapshot' = r.data
           /\ verPc' = IF r.err # "" THEN "load_failed" ELSE "batch_loop"
    /\ progress' = NewProgress
    /\ UNCHANGED <<concurrency, batchIdx, workers, semaphore, resultsChan, chanClosed,
                   verified, files, clock, saves, aggVars, probeVars, dnsVars, extVars>>

\* a direct call of the exported VerifySubdomains with the whole host list
CallVerifySubdomains ==
    /\ verPc = "start"
    /\ LET r == LoadLatestResult(files, "subdomains")
       IN  /\ r.err = ""
           /\ lastOp' = LoadOp("subdomains", r)
           /\ snapshot' = r.data
           /\ workers' = [k \in DOMAIN r.data.Subdomains |-> "spawned"]
           /\ verified' = r.data.Subdomains
    /\ semaphore' = 0
    /\ resultsChan' = <<>>
    /\ chanClosed' = FALSE
    /\ verPc' = "lib_pool"
    /\ UNCHANGED <<concurrency, batchIdx, progress, files, clock, saves,
                   aggVars, probeVars, dnsVars, extVars>>

Min(a, b) == IF a < b THEN a ELSE b

\* runReconVerify lines 91-99: batchSize is options.Concurrency
BatchSize == concurrency

\* runReconVerify lines 93-100 and VerifySubdomains lines 88-129: cut the next
\* batch, start one goroutine per host of it, copy the batch into `verified`
StartBatch ==
    /\ verPc = "batch_loop"
    /\ batchIdx < Len(snapshot.Subdomains)
    /\ LET end   == Min(batchIdx + BatchSize, Len(snapshot.Subdomains))
           batch == SubSeq(snapshot.Subdomains, batchIdx + 1, end)
       IN  /\ workers' = [k \in DOMAIN batch |-> "spawned"]
           /\ verified' = batch
    /\ semaphore' = 0
    /\ resultsChan' = <<>>
    /\ chanClosed' = FALSE
    /\ verPc' = "cmd_pool"
    /\ UNCHANGED <<concurrency, snapshot, batchIdx, progress, storeVars, aggVars, probeVars, dnsVars, extVars>>

InPool == verPc \in {"cmd_pool", "lib_pool"}

\* a send on the semaphore channel proceeds while the buffer has room
SemaphoreAlwaysFree == TRUE

SemaphoreHasRoom == semaphore < concurrency

\* worker line 102: semaphore <- struct{}{}, then VerifySubdomain starts
Acquire(k) ==
    /\ InPool
    /\ workers[k] = "spawned"
    /\ SemaphoreHasRoom
    /\ semaphore' = semaphore + 1
    /\ workers' = [workers EXCEPT ![k] = "probing"]
    /\ UNCHANGED <<verPc, concurrency, snapshot, batchIdx, resultsChan, chanClosed, verified,
                   progress, storeVars, aggVars, probeVars, dnsVars, extVars>>

\* worker lines 106-117 and the deferred calls: VerifySubdomain returns, the result
\* is sent (the channel's buffer holds one slot per host, the send never blocks),
\* the semaphore token is taken back and wg.Done runs
ProbeReturns(k) ==
    /\ InPool
    /\ workers[k] = "probing"
    /\ \E env \in PoolEnvs :
         resultsChan' = Append(resultsChan,
                               [index |-> k, result |-> VerifySubdomain(verified[k].Name, env)])
    /\ semaphore' = semaphore - 1
    /\ workers' = [workers EXCEPT ![k] = "done"]
    /\ UNCHANGED <<verPc, concurrency, snapshot, batchIdx, chanClosed, verified, progress,
                   storeVars, aggVars, probeVars, dnsVars, extVars>>

\* lines 122-125: wg.Wait() returns once every worker is done; close(resultsChan)
CloseResults ==
    /\ InPool
    /\ ~chanClosed
    /\ \A k \in DOMAIN workers : workers[k] = "done"
    /\ chanClosed' = TRUE
    /\ UNCHANGED <<verPc, concurrency, snapshot, batchIdx, workers, semaphore, resultsChan,
                   verified, progress, storeVars, aggVars, probeVars, dnsVars, extVars>>

\* lines 131-133: the collecting loop receives one result
Collect ==
    /\ InPool
    /\ resultsChan # <<>>
    /\ LET res == Head(resultsChan)
       IN  verified' = [verified EXCEPT ![res.index].Verified = res.result]
    /\ resultsChan' = Tail(resultsChan)
    /\ UNCHANGED <<verPc, concurrency, snapshot, batchIdx, workers, semaphore, chanClosed,
                   progress, storeVars, aggVars, probeVars, dnsVars, extVars>>

IsAlive(sub) == sub.Verified # Nil /\ sub.Verified.Status = "alive"

CountAlive(subs) == Cardinality({i \in DOMAIN subs : IsAlive(subs[i])})

\* VerifySubdomains returns (the range loop ends on the closed, drained channel);
\* runReconVerify lines 106-112 add the batch and advance i by batchSize
ReturnBatch ==
    /\ verPc = "cmd_pool"
    /\ chanClosed
    /\ resultsChan = <<>>
    /\ progress' = [verifiedSubdomains |-> progress.verifiedSubdomains \o verified,
                    verified |-> progress.verified + Len(verified),
                    alive |-> progress.alive + CountAlive(verified)]
    /\ batchIdx' = batchIdx + BatchSize
    /\ verPc' = "batch_loop"
    /\ UNCHANGED <<concurrency, snapshot, workers, semaphore, resultsChan, chanClosed,
                   verified, storeVars, aggVars, probeVars, dnsVars, extVars>>

\* the direct call returns `verified`
ReturnVerifySubdomains ==
    /\ verPc = "lib_pool"
    /\ chanClosed
    /\ resultsChan = <<>>
    /\ verPc' = "returned"
    /\ UNCHANGED <<concurrency, snapshot, batchIdx, workers, semaphore, resultsChan,
                   chanClosed, verified, progress, storeVars, aggVars, probeVars, dnsVars, extVars>>

VerifiedResultsDeadIsTotal ==
    [snapshot EXCEPT
        !.Subdomains = progress.verifiedSubdomains,
        !.Summary = MapPut(MapPut(MapPut(@, "verified_total", progress.verified),
                                  "verified_alive", progress.alive),
                           "verified_dead", progress.verified)]

\* runReconVerify lines 121-131: the new snapshot and its verification summary
VerifiedResults ==
    [snapshot EXCEPT
        !.Subdomains = progress.verifiedSubdomains,
        !.Summary = MapPut(MapPut(MapPut(@, "verified_total", progress.verified),
                                  "verified_alive", progress.alive),
                           "verified_dead", progress.verified - progress.alive)]

\* runReconVerify lines 115-137: the batch loop is over; persist the new snapshot
SaveVerification ==
    /\ verPc = "batch_loop"
    /\ batchIdx >= Len(snapshot.Subdomains)
    /\ \E outcome \in SaveOutcomes :
         /\ files' = SaveResults(files, "subdomains", clock, VerifiedResults, outcome)
         /\ lastOp' = SaveOp("subdomains", outcome, VerifiedResults)
         /\ verPc' = IF outcome = "ok" THEN "done" ELSE "save_failed"
    /\ saves' = saves + 1
    /\ UNCHANGED <<concurrency, snapshot, batchIdx, workers, semaphore, resultsChan,
                   chanClosed, verified, progress, clock, aggVars, probeVars, dnsVars, extVars>>

NextVerify ==
    \/ RunReconVerify
    \/ CallVerifySubdomains
    \/ StartBatch
    \/ \E k \in DOMAIN workers : Acquire(k)
    \/ \E k \in DOMAIN workers : ProbeReturns(k)
    \/ CloseResults
    \/ Collect
    \/ ReturnBatch
    \/ ReturnVerifySubdomains
    \/ SaveVerification

-----------------------------------------------------------------------------
(* Result store on its own: any sequence of saves and loads as the clock runs *)

\* SaveResults calls in one run of the store
MaxSaves == 3

\* the clock starts at 12:00:08 and runs up to this second
MaxClock == 11

StartClock == 8

ToolNames == {"subdomains", "dns"}

InitStoreRun ==
    /\ files = EmptyMap
    /\ clock = StartClock
    /\ saves = 0
    /\ lastOp = NoOp

\* a second passes
Tick ==
    /\ clock < MaxClock
    /\ clock' = clock + 1
    /\ UNCHANGED <<files, saves, lastOp, aggVars, probeVars, verVars, dnsVars, extVars>>

\* some command calls SaveResults(domain, toolName, data, FormatJSON)
Save ==
    /\ saves < MaxSaves
    /\ \E toolName \in ToolNames, outcome \in SaveOutcomes :
         LET data == [snap |-> saves + 1]
         IN  /\ files' = SaveResults(files, toolName, clock, data, outcome)
             /\ lastOp' = SaveOp(toolName, outcome, data)
    /\ saves' = saves + 1
    /\ UNCHANGED <<clock, aggVars, probeVars, verVars, dnsVars, extVars>>

\* some command calls LoadLatestResult(domain, toolName, &result)
Load ==
    /\ \E toolName \in ToolNames :
         lastOp' = LoadOp(toolName, LoadLatestResult(files, toolName))
    /\ UNCHANGED <<files, clock, saves, aggVars, probeVars, verVars, dnsVars, extVars>>

NextStore ==
    \/ Tick
    \/ Save
    \/ Load

-----------------------------------------------------------------------------
(* DNS deep enumeration, one host: queryDNSInfo and its classifiers *)

\* takeoverSignatures: the services (the map's keys)
takeoverSignatures ==
    {"herokuapp.com", "github.io", "azurewebsites.net", "cloudfront.net",
     "s3.amazonaws.com", "bitbucket.io", "ghost.io", "pantheonsite.io", "zendesk.com",
     "uservoice.com", "surge.sh", "tumblr.com", "wordpress.com", "statuspage.io",
     "hubspot.net"}

\* cloudProviders: provider -> domain patterns
cloudProviders ==
    [AWS          |-> <<"amazonaws.com", "cloudfront.net", "awsglobalaccelerator.com">>,
     Azure        |-> <<"azurewebsites.net", "cloudapp.azure.com", "azure.com">>,
     GCP          |-> <<"googleapis.com", "googleusercontent.com", "cloud.google.com">>,
     Cloudflare   |-> <<"cloudflare.com", "cloudflare.net", "cloudflaressl.com">>,
     Akamai       |-> <<"akamai.net", "akamaitechnologies.com", "akamaiedge.net">>,
     Fastly       |-> <<"fastly.net", "fastlylb.net">>,
     DigitalOcean |-> <<"digitaloceanspaces.com">>,
     Heroku       |-> <<"herokuapp.com", "herokussl.com">>]

RecordTypeNames == <<"A", "AAAA", "CNAME", "MX", "TXT", "NS">>

\* the RecordTypes selections of the modelled runs (empty = EnumerateDNS's default;
\* SRV is a type the tool does not know)
RecordTypeSelections ==
    {<<>>, <<"A", "CNAME">>, <<"cname", "ns">>, <<"A", "AAAA", "MX", "TXT", "NS">>,
     <<"A", "SRV">>}

\* EnumerateDNS lines 128-130
WithDefaults(options) ==
    IF Len(options.RecordTypes) = 0
    THEN [options EXCEPT !.RecordTypes = RecordTypeNames]
    ELSE options

\* contains: strings.EqualFold membership
contains(slice, item) == \E i \in DOMAIN slice : ToLower(slice[i]) = ToLower(item)

QueriedHost == "a.ex"

\* what the resolver may answer to LookupCNAME for the host ("" = error)
CNAMEAnswers ==
    {"", "a.ex.", "foo.example.com.", "foo.herokuapp.com.", "FOO.HerokuApp.COM.",
     "x.github.io.herokuapp.com.", "d1.cloudfront.net.",
     "x.herokuapp.com.cdn.cloudflare.net."}

\* what the resolver may answer for the list-valued record types (<<>> = error)
ListAnswers(type) ==
    CASE type = "A"    -> {<<>>, <<"192.0.2.1">>}
      [] type = "AAAA" -> {<<>>, <<"2001:db8::1">>}
      [] type = "MX"   -> {<<>>, <<"mail.ex.">>}
      [] type = "TXT"  -> {<<>>, <<"v=spf1 -all">>}
      [] type = "NS"   -> {<<>>, <<"ns1.cloudflare.com.">>, <<"ns1.ex.">>}

TrimDots(hosts) == [i \in DOMAIN hosts |-> TrimSuffix(hosts[i], ".")]

NewDNSInfo ==
    [Subdomain |-> QueriedHost, A |-> <<>>, AAAA |-> <<>>, CNAME |-> <<>>, MX |-> <<>>,
     TXT |-> <<>>, NS |-> <<>>, CloudProvider |-> "", TakeoverRisk |-> FALSE,
     TakeoverReason |-> ""]

TakeoverReasonFor(service) == "CNAME points to " \o service \o " (potential takeover)"

\* checkSubdomainTakeover: the services the loop over the map can stop at
TakeoverMatchesCaseSensitive(cname) == {service \in takeoverSignatures : Contains(cname, service)}

TakeoverMatches(cname) ==
    {service \in takeoverSignatures : Contains(ToLower(cname), service)}

\* identifyCloudProvider on one value list: the providers the nested loops over the
\* map can return at the first value that matches any pattern
ProvidersMatching(value) ==
    {provider \in DOMAIN cloudProviders :
        \E i \in DOMAIN cloudProviders[provider] :
            Contains(ToLower(value), cloudProviders[provider][i])}

RECURSIVE FirstMatchProviders(_)
FirstMatchProviders(values) ==
    IF values = <<>> THEN {}
    ELSE IF ProvidersMatching(Head(values)) # {} THEN ProvidersMatching(Head(values))
    ELSE FirstMatchProviders(Tail(values))

\* identifyCloudProvider: the set of values it can return
identifyCloudProvider(info) ==
    IF FirstMatchProviders(info.CNAME) # {} THEN FirstMatchProviders(info.CNAME)
    ELSE IF FirstMatchProviders(info.NS) # {} THEN FirstMatchProviders(info.NS)
    ELSE {""}

IdleDNS ==
    /\ dnsStep = 0
    /\ dnsOptions = Nil
    /\ dnsInfo = Nil
    /\ cnameAnswer = ""

InitDNSQuery ==
    /\ dnsStep = 1
    /\ \E types \in RecordTypeSelections, takeover \in BOOLEAN :
         dnsOptions = WithDefaults([RecordTypes |-> types, CheckTakeover |-> takeover])
    /\ dnsInfo = NewDNSInfo
    /\ cnameAnswer = ""

AtBlock(type) == dnsStep \in DOMAIN RecordTypeNames /\ RecordTypeNames[dnsStep] = type

\* queryDNSInfo: the A, AAAA, MX, TXT and NS blocks (an error leaves the list nil)
LookupRecords ==
    /\ \E type \in {"A", "AAAA", "MX", "TXT", "NS"} :
         /\ AtBlock(type)
         /\ IF contains(dnsOptions.RecordTypes, type)
            THEN \E answer \in ListAnswers(type) :
                   dnsInfo' = [dnsInfo EXCEPT
                                 ![type] = IF type \in {"MX", "NS"} THEN TrimDots(answer)
                                           ELSE answer]
            ELSE dnsInfo' = dnsInfo
    /\ dnsStep' = dnsStep + 1
    /\ UNCHANGED <<dnsOptions, cnameAnswer, aggVars, storeVars, probeVars, verVars, extVars>>

\* queryDNSInfo lines 200-211: the CNAME block with the takeover check
LookupCNAME ==
    /\ AtBlock("CNAME")
    /\ IF contains(dnsOptions.RecordTypes, "CNAME")
       THEN \E cname \in CNAMEAnswers :
              /\ cnameAnswer' = cname
              /\ IF cname # "" /\ cname # QueriedHost /\ cname # QueriedHost \o "."
                 THEN IF dnsOptions.CheckTakeover /\ TakeoverMatches(cname) # {}
                      THEN \E service \in TakeoverMatches(cname) :
                             dnsInfo' = [dnsInfo EXCEPT
                                           !.CNAME = <<TrimSuffix(cname, ".")>>,
                                           !.TakeoverRisk = TRUE,
                                           !.TakeoverReason = TakeoverReasonFor(service)]
                      ELSE dnsInfo' = [dnsInfo EXCEPT !.CNAME = <<TrimSuffix(cname, ".")>>]
                 ELSE dnsInfo' = dnsInfo
       ELSE dnsInfo' = dnsInfo /\ cnameAnswer' = cnameAnswer
    /\ dnsStep' = dnsStep + 1
    /\ UNCHANGED <<dnsOptions, aggVars, storeVars, probeVars, verVars, extVars>>

\* queryDNSInfo lines 241-244: identify the cloud provider and return
IdentifyCloud ==
    /\ dnsStep = Len(RecordTypeNames) + 1
    /\ \E provider \in identifyCloudProvider(dnsInfo) :
         dnsInfo' = [dnsInfo EXCEPT !.CloudProvider = provider]
    /\ dnsStep' = dnsStep + 1
    /\ UNCHANGED <<dnsOptions, cnameAnswer, aggVars, storeVars, probeVars, verVars, extVars>>

DNSQueryReturned == dnsStep = Len(RecordTypeNames) + 2

NextDNSQuery ==
    \/ LookupRecords
    \/ LookupCNAME
    \/ IdentifyCloud

-----------------------------------------------------------------------------
(* Result queries: GetLatestSubdomainResult and QuerySubdomains *)

IdleQuery ==
    /\ queryOptions = Nil
    /\ queryOut = Nil

\* strings.Split(s, "_")
RECURSIVE SplitFrom(_, _, _)
SplitFrom(s, i, cur) ==
    IF i > Len(s) THEN <<cur>>
    ELSE IF Char(s, i) = "_" THEN <<cur>> \o SplitFrom(s, i + 1, "")
    ELSE SplitFrom(s, i + 1, cur \o Char(s, i))

Split(s) == SplitFrom(s, 1, "")

\* strings.Join(parts, "_")
RECURSIVE Join(_)
Join(parts) ==
    IF Len(parts) = 0 THEN ""
    ELSE IF Len(parts) = 1 THEN parts[1]
    ELSE parts[1] \o "_" \o Join(Tail(parts))

\* time.Parse("20060102_150405", s) for the stamps FormatTimestamp writes:
\* seconds of the day, or -1 for a parse error
ParseTimestamp(str) ==
    IF Len(str) = 15 /\ Char(str, 9) = "_"
       /\ \A i \in (1..15) \ {9} : \E d \in 1..Len(Digits) : Char(Digits, d) = Char(str, i)
    THEN Num2(str, 10) * 3600 + Num2(str, 12) * 60 + Num2(str, 14)
    ELSE -1

\* ListResultsForDomain lines 95-124: the ResultInfo of one *.json file, or Nil
\* when the file name is skipped
ResultInfoOf(filename) ==
    LET parts == Split(TrimSuffix(filename, ".json"))
    IN  IF Len(parts) < 3 THEN Nil
        ELSE LET timestamp == ParseTimestamp(Join(Tail(parts)))
             IN  IF timestamp < 0 THEN Nil
                 ELSE [ToolName |-> parts[1], Timestamp |-> timestamp,
                       FilePath |-> filename]

\* ListResultsForDomain: every order sort.Slice may leave the infos in, newest
\* first (equal timestamps in either order)
ListResultsForDomain(dir) ==
    LET infos == {ResultInfoOf(f) : f \in {g \in DOMAIN dir : HasSuffix(g, ".json")}}
                    \ {Nil}
    IN  {q \in Perms(infos) :
            \A i, j \in DOMAIN q : i < j => q[i].Timestamp >= q[j].Timestamp}

\* loadJSONFile
loadJSONFile(dir, filePath) ==
    IF IsPartial(dir[filePath]) THEN [err |-> "failed to parse JSON", data |-> Nil]
    ELSE [err |-> "", data |-> dir[filePath]]

\* GetLatestSubdomainResult for one listing
GetLatestSubdomainResult(dir, listing) ==
    LET subdomainResults == SelectSeq(listing, LAMBDA r : r.ToolName = "subdomains")
    IN  IF Len(subdomainResults) = 0
        THEN [err |-> "no subdomain results found", data |-> Nil]
        ELSE loadJSONFile(dir, subdomainResults[1].FilePath)

\* QuerySubdomains lines 228-249: the source filter
DiscoveredBySource(sub, source) == \E i \in DOMAIN sub.DiscoveredBy : sub.DiscoveredBy[i] = source

KeepsUnverified(sub, options) ==
    /\ ~(options.AliveOnly /\ sub.Verified # Nil /\ sub.Verified.Status # "alive")
    /\ ~(options.DeadOnly /\ sub.Verified # Nil /\ sub.Verified.Status # "dead")
    /\ ~(options.StatusCode # 0 /\ sub.Verified # Nil /\ sub.Verified.HTTP # Nil
          /\ sub.Verified.HTTP.StatusCode # options.StatusCode)
    /\ ~(options.Source # "" /\ ~DiscoveredBySource(sub, options.Source))

\* QuerySubdomains lines 226-254: sub is appended to filtered
Keeps(sub, options) ==
    /\ ~(options.AliveOnly /\ (sub.Verified = Nil \/ sub.Verified.Status # "alive"))
    /\ ~(options.DeadOnly /\ (sub.Verified = Nil \/ sub.Verified.Status # "dead"))
    /\ ~(options.StatusCode # 0
          /\ (\/ sub.Verified = Nil
              \/ sub.Verified.HTTP = Nil
              \/ sub.Verified.HTTP.StatusCode # options.StatusCode))
    /\ ~(options.Source # "" /\ ~DiscoveredBySource(sub, options.Source))

\* QuerySubdomains for one listing: [err, hosts]
QuerySubdomains(dir, options, listing) ==
    LET r == GetLatestSubdomainResult(dir, listing)
    IN  IF r.err # "" THEN [err |-> r.err, hosts |-> <<>>]
        ELSE [err |-> "",
              hosts |-> SelectSeq(r.data.Subdomains, LAMBDA sub : Keeps(sub, options))]

\* hosts per queried snapshot
MaxQueryHosts == 2

\* the verification states a stored host can be in
StoredVerifications ==
    {Nil,
     [Status |-> "alive", DNS |-> resolveDNS("ok"),
      HTTP |-> [Accessible |-> TRUE, URL |-> "https://h", StatusCode |-> 200, Redirect |-> FALSE]],
     [Status |-> "alive", DNS |-> resolveDNS("ok"),
      HTTP |-> [Accessible |-> TRUE, URL |-> "http://h", StatusCode |-> 404, Redirect |-> FALSE]],
     [Status |-> "dead", DNS |-> resolveDNS("error"), HTTP |-> Nil],
     [Status |-> "dead", DNS |-> resolveDNS("ok"), HTTP |-> NewHTTPResult]}

StoredProvenances == {<<CrtSh>>, <<CrtSh, "amass">>}

\* the snapshots a query may find as the latest one
QuerySnapshots ==
    {[EnumeratedSnapshot(n) EXCEPT !.Subdomains =
          [i \in 1..n |-> [Name |-> HostName(i), DiscoveredBy |-> by[i],
                           FirstSeen |-> 0, Verified |-> ver[i]]]] :
        <<n, by, ver>> \in UNION {{<<k, b, v>> : b \in [1..k -> StoredProvenances],
                                                v \in [1..k -> StoredVerifications]} :
                                  k \in 0..MaxQueryHosts}}

\* the results directories a query runs against: empty; the snapshot alone; the
\* snapshot after an older one and next to DNS results saved later
QueryDirs ==
    {EmptyMap}
    \cup {SaveResults(EmptyMap, "subdomains", 1, snap, "ok") : snap \in QuerySnapshots}
    \cup {SaveResults(SaveResults(SaveResults(EmptyMap, "subdomains", 0,
                                              EnumeratedSnapshot(1), "ok"),
                                  "subdomains", 1, snap, "ok"),
                      "dns", 2, [dns |-> TRUE], "ok") : snap \in QuerySnapshots}

\* --alive, --dead, --status and --source of a query
QueryOptionsSet ==
    [AliveOnly : BOOLEAN, DeadOnly : BOOLEAN, StatusCode : {0, 200, 404},
     Source : {"", CrtSh, "amass"}]

InitQuery ==
    /\ files \in QueryDirs
    /\ clock = 2
    /\ saves = 0
    /\ lastOp = NoOp
    /\ queryOptions \in QueryOptionsSet
    /\ queryOut = Nil

\* QuerySubdomains(domain, options)
Query ==
    /\ queryOut = Nil
    /\ \E listing \in ListResultsForDomain(files) :
         queryOut' = QuerySubdomains(files, queryOptions, listing)
    /\ UNCHANGED <<queryOptions, cmdVars, denVars, fnVars, aggVars, storeVars, probeVars, verVars, dnsVars>>

NextQuery == Query

-----------------------------------------------------------------------------
(* The three recon commands, step by step: runReconSubdomain, runReconVerify *)
(* and runReconDNS with the target typed on the command line                 *)

InStr(c, str) == \E i \in 1..Len(str) : Char(str, i) = c

IsAlpha(c) == InStr(c, UpperAlpha) \/ InStr(c, LowerAlpha)

IsAlnum(c) == IsAlpha(c) \/ InStr(c, Digits)

\* the pieces of s between the occurrences of the byte sep
RECURSIVE SplitBy(_, _, _, _)
SplitBy(s, sep, i, cur) ==
    IF i > Len(s) THEN <<cur>>
    ELSE IF Char(s, i) = sep THEN <<cur>> \o SplitBy(s, sep, i + 1, "")
    ELSE SplitBy(s, sep, i + 1, cur \o Char(s, i))

\* [a-zA-Z0-9]([a-zA-Z0-9\-]{0,61}[a-zA-Z0-9])?
IsLabel(l) ==
    /\ Len(l) >= 1
    /\ Len(l) <= 63
    /\ IsAlnum(Char(l, 1))
    /\ IsAlnum(Char(l, Len(l)))
    /\ \A i \in 1..Len(l) : IsAlnum(Char(l, i)) \/ Char(l, i) = "-"

\* [a-zA-Z]{2,}
IsTLD(l) == Len(l) >= 2 /\ \A i \in 1..Len(l) : IsAlpha(Char(l, i))

\* domainRegex.MatchString: ^(label\.)+tld$
MatchesDomainRegex(domain) ==
    LET parts == SplitBy(domain, ".", 1, "")
    IN  /\ Len(parts) >= 2
        /\ \A i \in 1..(Len(parts) - 1) : IsLabel(parts[i])
        /\ IsTLD(parts[Len(parts)])

\* ValidateDomain: "" for nil, or the error
ValidateDomain(domain) ==
    IF domain = "" THEN "domain cannot be empty"
    ELSE IF ~MatchesDomainRegex(domain) THEN "invalid domain format"
    ELSE ""

\* filepath.Join(resultsDir, domain), relative to the results directory: empty
\* elements are ignored and the path is cleaned of its trailing separators
RECURSIVE CleanPath(_)
CleanPath(path) ==
    IF path = "" THEN "."
    ELSE IF HasSuffix(path, "/") THEN CleanPath(SubSeq(path, 1, Len(path) - 1))
    ELSE path

GetDomainResultsDir(domain) == CleanPath(domain)

\* the files of a directory; a directory that does not exist has none
FilesOf(t, dir) == IF dir \in DOMAIN t THEN t[dir] ELSE EmptyMap

\* what the user may type as the target
Targets == {"ex.io", "a.ex.io", "", "ex.io/", "-x.io", "ex..io"}

Commands == {"subdomain", "verify", "dns"}

\* the results directory before the command: empty, or holding what an earlier
\* `recon subdomain ex.io` left (a snapshot of one host, of none, or a file
\* whose write failed half way)
Trees ==
    {EmptyMap,
     MapPut(EmptyMap, "ex.io",
            SaveResults(EmptyMap, "subdomains", 0, EnumeratedSnapshot(1), "ok")),
     MapPut(EmptyMap, "ex.io",
            SaveResults(EmptyMap, "subdomains", 0, EnumeratedSnapshot(0), "ok")),
     MapPut(EmptyMap, "ex.io",
            SaveResults(EmptyMap, "subdomains", 0, EnumeratedSnapshot(1), "failed_partial"))}

IdleCmd ==
    /\ cmdName = ""
    /\ cmdTarget = ""
    /\ cmdPc = "idle"
    /\ cmdWork = <<>>
    /\ cmdReturn = Nil
    /\ tree = EmptyMap

InitCmd ==
    /\ cmdName \in Commands
    /\ cmdTarget \in Targets
    /\ cmdPc = "start"
    /\ cmdWork = <<>>
    /\ cmdReturn = Nil
    /\ tree \in Trees
    /\ files = EmptyMap
    /\ clock = 1
    /\ saves = 0
    /\ lastOp = NoOp

\* return fmt.Errorf(...)
ReturnError(err) ==
    /\ cmdReturn' = err
    /\ cmdPc' = "returned"

\* runReconSubdomain and runReconDNS, first statement: ValidateDomain(domain)
CmdValidates ==
    /\ cmdPc = "start"
    /\ cmdName \in {"subdomain", "dns"}
    /\ IF ValidateDomain(cmdTarget) # ""
       THEN ReturnError("invalid domain: " \o ValidateDomain(cmdTarget))
       ELSE cmdPc' = "run" /\ UNCHANGED cmdReturn
    /\ UNCHANGED <<cmdName, cmdTarget, cmdWork, tree, queryVars, denVars, fnVars, aggVars, storeVars,
                   probeVars, verVars, dnsVars>>

\* runReconVerify lines 41-51: no validation; the latest snapshot is loaded
VerifyLoads ==
    /\ cmdPc = "start"
    /\ cmdName = "verify"
    /\ LET r == LoadLatestResult(FilesOf(tree, GetDomainResultsDir(cmdTarget)), "subdomains")
       IN  /\ lastOp' = LoadOp("subdomains", r)
           /\ IF r.err # ""
              THEN ReturnError("failed to load subdomain results") /\ UNCHANGED cmdWork
              ELSE /\ cmdPc' = "run"
                   /\ cmdWork' = Append(cmdWork, "load")
                   /\ UNCHANGED cmdReturn
    /\ UNCHANGED <<cmdName, cmdTarget, tree, files, clock, saves, queryVars, denVars, fnVars, aggVars,
                   probeVars, verVars, dnsVars>>

\* runReconSubdomain lines 63-115: the sources are detected and run
SubdomainEnumerates ==
    /\ cmdPc = "run"
    /\ cmdName = "subdomain"
    /\ cmdWork' = Append(cmdWork, "process")
    /\ cmdPc' = "save"
    /\ UNCHANGED <<cmdName, cmdTarget, cmdReturn, tree, queryVars, denVars, fnVars, aggVars, storeVars,
                   probeVars, verVars, dnsVars>>

\* runReconVerify lines 84-113: the hosts of the snapshot are probed
VerifyProbes ==
    /\ cmdPc = "run"
    /\ cmdName = "verify"
    /\ cmdWork' = Append(cmdWork, "probe")
    /\ cmdPc' = "save"
    /\ UNCHANGED <<cmdName, cmdTarget, cmdReturn, tree, queryVars, denVars, fnVars, aggVars, storeVars,
                   probeVars, verVars, dnsVars>>

\* runReconDNS line 897: EnumerateDNS loads the latest snapshot and queries
\* its hosts, or returns an error
DNSEnumerates ==
    /\ cmdPc = "run"
    /\ cmdName = "dns"
    /\ LET r == LoadLatestResult(FilesOf(tree, GetDomainResultsDir(cmdTarget)), "subdomains")
       IN  /\ lastOp' = LoadOp("subdomains", r)
           /\ IF r.err # ""
              THEN ReturnError("DNS enumeration failed: failed to load subdomain results")
                   /\ UNCHANGED cmdWork
              ELSE IF Len(r.data.Subdomains) = 0
              THEN ReturnError("DNS enumeration failed: no subdomains to query")
                   /\ cmdWork' = Append(cmdWork, "load")
              ELSE /\ cmdPc' = "save"
                   /\ cmdWork' = cmdWork \o <<"load", "probe">>
                   /\ UNCHANGED cmdReturn
    /\ UNCHANGED <<cmdName, cmdTarget, tree, files, clock, saves, queryVars, denVars, fnVars, aggVars,
                   probeVars, verVars, dnsVars>>

ToolOf(name) == IF name = "dns" THEN "dns" ELSE "subdomains"

\* what the command returns after SaveResults: recon.go lines 119-122 and
\* recon_verify.go lines 134-137 return the error, recon_results.go lines
\* 908-934 prints a warning, logs the activity as completed and returns nil
ReturnAfterSave(name, outcome) ==
    IF outcome # "ok" /\ name \in {"subdomain", "verify"}
    THEN "failed to save results"
    ELSE ""

\* the command persists its results and returns
CmdSaves ==
    /\ cmdPc = "save"
    /\ \E outcome \in SaveOutcomes :
         LET dir  == GetDomainResultsDir(cmdTarget)
             data == [tool |-> ToolOf(cmdName), Domain |-> cmdTarget]
             new  == SaveResults(FilesOf(tree, dir), ToolOf(cmdName), clock, data, outcome)
         IN  /\ tree' = MapPut(tree, dir, new)
             /\ lastOp' = SaveOp(ToolOf(cmdName), outcome, data)
             /\ cmdWork' = IF outcome = "failed_clean" THEN cmdWork
                           ELSE Append(cmdWork, "write")
             /\ cmdReturn' = ReturnAfterSave(cmdName, outcome)
    /\ cmdPc' = "returned"
    /\ saves' = saves + 1
    /\ UNCHANGED <<cmdName, cmdTarget, files, clock, queryVars, denVars, fnVars, aggVars, probeVars,
                   verVars, dnsVars>>

NextCmd ==
    \/ CmdValidates
    \/ VerifyLoads
    \/ SubdomainEnumerates
    \/ VerifyProbes
    \/ DNSEnumerates
    \/ CmdSaves

-----------------------------------------------------------------------------
(* calculateDNSSummary: the statistics of a list of DNS records *)

\* most records in the list handed to calculateDNSSummary
MaxSummaryRecords == 3

\* the DNSInfo values the lists are drawn from: hosts sharing addresses and
\* providers, a host without any record, hosts at takeover risk
SummaryRecordPool ==
    {[NewDNSInfo EXCEPT !.A = <<"192.0.2.1">>, !.CloudProvider = "AWS"],
     [NewDNSInfo EXCEPT !.A = <<"192.0.2.1", "192.0.2.2">>, !.AAAA = <<"2001:db8::1">>,
                        !.CNAME = <<"d1.cloudfront.net">>, !.CloudProvider = "AWS",
                        !.TakeoverRisk = TRUE,
                        !.TakeoverReason = TakeoverReasonFor("cloudfront.net")],
     NewDNSInfo,
     [NewDNSInfo EXCEPT !.AAAA = <<"2001:db8::1">>, !.MX = <<"mail.ex">>,
                        !.TXT = <<"v=spf1 -all", "k=v">>, !.NS = <<"ns1.cloudflare.com">>,
                        !.CloudProvider = "Cloudflare", !.TakeoverRisk = TRUE,
                        !.TakeoverReason = TakeoverReasonFor("github.io")],
     [NewDNSInfo EXCEPT !.A = <<"192.0.2.2">>, !.MX = <<"mail.ex">>]}

SummaryInputs == UNION {[1..n -> SummaryRecordPool] : n \in 0..MaxSummaryRecords}

\* summary := DNSSummary{} with the two local maps (lines 291-293)
NewDNSSummary ==
    [TotalA |-> 0, TotalAAAA |-> 0, TotalMX |-> 0, TotalTXT |-> 0, TotalCNAME |-> 0,
     TotalNS |-> 0, TakeoverRisks |-> 0, CloudProviders |-> <<>>, UniqueIPs |-> 0,
     uniqueIPs |-> {}, cloudProvidersMap |-> {}]

ForgetEarlierIPs(seen, ips) == Range(ips)

\* lines 312-317: for _, ip := range ...: uniqueIPs[ip] = true
MarkIPs(seen, ips) == seen \cup Range(ips)

\* one iteration of the loop over records (lines 295-318)
SummaryStep(acc, record) ==
    [acc EXCEPT
        !.TotalA = @ + Len(record.A),
        !.TotalAAAA = @ + Len(record.AAAA),
        !.TotalMX = @ + Len(record.MX),
        !.TotalTXT = @ + Len(record.TXT),
        !.TotalCNAME = @ + Len(record.CNAME),
        !.TotalNS = @ + Len(record.NS),
        !.TakeoverRisks = IF record.TakeoverRisk THEN @ + 1 ELSE @,
        !.CloudProviders =
            IF record.CloudProvider # "" /\ record.CloudProvider \notin acc.cloudProvidersMap
            THEN Append(@, record.CloudProvider) ELSE @,
        !.cloudProvidersMap =
            IF record.CloudProvider # "" THEN @ \cup {record.CloudProvider} ELSE @,
        !.uniqueIPs = MarkIPs(MarkIPs(@, record.A), record.AAAA)]

RECURSIVE SummaryLoop(_, _, _)
SummaryLoop(acc, records, i) ==
    IF i > Len(records) THEN acc
    ELSE SummaryLoop(SummaryStep(acc, records[i]), records, i + 1)

\* calculateDNSSummary: the loop, then summary.UniqueIPs = len(uniqueIPs); the
\* value returned carries the fields of DNSSummary only
calculateDNSSummary(records) ==
    LET acc == SummaryLoop(NewDNSSummary, records, 1)
    IN  [TotalA |-> acc.TotalA, TotalAAAA |-> acc.TotalAAAA, TotalMX |-> acc.TotalMX,
         TotalTXT |-> acc.TotalTXT, TotalCNAME |-> acc.TotalCNAME, TotalNS |-> acc.TotalNS,
         TakeoverRisks |-> acc.TakeoverRisks, CloudProviders |-> acc.CloudProviders,
         UniqueIPs |-> Cardinality(acc.uniqueIPs)]

-----------------------------------------------------------------------------
(* DNS enumeration of the latest snapshot: EnumerateDNS and its worker pool *)

\* hosts in the snapshot that is enumerated
MaxDNSHosts == 2

\* largest --concurrency of the modelled runs (0 = EnumerateDNS's default)
MaxDNSConcurrency == 2

\* default of options.Concurrency
DefaultDNSConcurrency == 10

\* default of options.Timeout, in seconds
DefaultDNSTimeout == 5

\* context.Background(): never cancelled, no deadline
Background == [deadline |-> Nil]

\* the snapshot with the first k hosts verified alive and the others dead
VerifiedSnapshot(n, k) ==
    [EnumeratedSnapshot(n) EXCEPT !.Subdomains =
        [i \in 1..n |->
            [@[i] EXCEPT !.Verified =
                IF i <= k THEN [Status |-> "alive", DNS |-> resolveDNS("ok"),
                                HTTP |-> HTTPSuccess("https", HostName(i),
                                                     [StatusCode |-> 200])]
                ELSE [Status |-> "dead", DNS |-> resolveDNS("error"), HTTP |-> Nil]]]]

\* the results directories EnumerateDNS runs against
DNSDirs ==
    {EmptyMap}
    \cup {SaveResults(EmptyMap, "subdomains", 0, EnumeratedSnapshot(n), "ok") :
             n \in 0..MaxDNSHosts}
    \cup {SaveResults(EmptyMap, "subdomains", 0, VerifiedSnapshot(n, 1), "ok") :
             n \in 1..MaxDNSHosts}

\* the record types whose lookup fails for one host
FailingTypeSets == {{}, {"CNAME", "MX"}, {"A", "AAAA", "CNAME", "MX", "TXT", "NS"}}

\* what a lookup that succeeds returns for the host
GoodAnswer(type) ==
    CASE type = "A"     -> <<"192.0.2.1">>
      [] type = "AAAA"  -> <<"2001:db8::1">>
      [] type = "CNAME" -> <<"foo.example.com.">>
      [] type = "MX"    -> <<"mail.ex.">>
      [] type = "TXT"   -> <<"v=spf1 -all">>
      [] type = "NS"    -> <<"ns1.ex.">>

RecordLookupError(info, type, failing) ==
    IF type \in failing THEN [info EXCEPT ![type] = <<"lookup failed">>]
    ELSE [info EXCEPT ![type] = IF type \in {"CNAME", "MX", "NS"}
                                THEN TrimDots(GoodAnswer(type))
                                ELSE GoodAnswer(type)]

\* one block of queryDNSInfo: a lookup error leaves the list nil, an answer is
\* stored (host names without their trailing dot)
AfterBlock(info, type, failing) ==
    IF type \in failing THEN info
    ELSE [info EXCEPT ![type] = IF type \in {"CNAME", "MX", "NS"}
                                THEN TrimDots(GoodAnswer(type))
                                ELSE GoodAnswer(type)]

\* queryDNSInfo lines 180-238: the six blocks from block i on
RECURSIVE QueryBlocks(_, _, _, _)
QueryBlocks(info, options, failing, i) ==
    IF i > Len(RecordTypeNames) THEN info
    ELSE QueryBlocks(IF contains(options.RecordTypes, RecordTypeNames[i])
                     THEN AfterBlock(info, RecordTypeNames[i], failing)
                     ELSE info,
                     options, failing, i + 1)

\* the lookups queryDNSInfo issues for the host under the context ctx
LookupsOf(subdomain, options, failing, ctx) ==
    {[host |-> subdomain, type |-> RecordTypeNames[i],
      failed |-> (RecordTypeNames[i] \in failing), deadline |-> ctx.deadline] :
        i \in {j \in DOMAIN RecordTypeNames : contains(options.RecordTypes, RecordTypeNames[j])}}

\* --alive, --types, --concurrency and --timeout of the modelled runs
DNSOptionSets ==
    [AliveOnly : BOOLEAN, RecordTypes : RecordTypeSelections,
     Concurrency : 0..MaxDNSConcurrency, Timeout : {0, 1}, CheckTakeover : {FALSE}]

IdleDNSEnum ==
    /\ denPc = "idle"
    /\ denOptions = Nil
    /\ denCtx = Nil
    /\ denHosts = <<>>
    /\ denWorkers = <<>>
    /\ denSem = 0
    /\ denResults = Nil
    /\ denAsked = {}
    /\ denMu = {}
    /\ denLocal = <<>>

InitDNSEnum ==
    /\ denPc = "start"
    /\ denOptions \in DNSOptionSets
    /\ denCtx = Background
    /\ denHosts = <<>>
    /\ denWorkers = <<>>
    /\ denSem = 0
    /\ denResults = Nil
    /\ denAsked = {}
    /\ denMu = {}
    /\ denLocal = <<>>
    /\ files \in DNSDirs
    /\ clock = 1
    /\ saves = 0
    /\ lastOp = NoOp

\* EnumerateDNS lines 121-130
WithDNSDefaults(options) ==
    [WithDefaults(options) EXCEPT
        !.Concurrency = IF @ = 0 THEN DefaultDNSConcurrency ELSE @,
        !.Timeout = IF @ = 0 THEN DefaultDNSTimeout ELSE @]

SubdomainsToQueryAll(snap, options) == snap.Subdomains

\* EnumerateDNS lines 106-115
SubdomainsToQuery(snap, options) ==
    IF options.AliveOnly
    THEN SelectSeq(snap.Subdomains,
                   LAMBDA sub : sub.Verified # Nil /\ sub.Verified.Status = "alive")
    ELSE snap.Subdomains

\* EnumerateDNS lines 98-147: load, filter, defaults, start one goroutine per host
CallEnumerateDNS ==
    /\ denPc = "start"
    /\ LET r == LoadLatestResult(files, "subdomains")
       IN  /\ lastOp' = LoadOp("subdomains", r)
           /\ IF r.err # "" \/ Len(SubdomainsToQuery(r.data, denOptions)) = 0
              THEN /\ denPc' = "error"
                   /\ UNCHANGED <<denOptions, denHosts, denWorkers, denResults, denLocal>>
              ELSE LET hosts == SubdomainsToQuery(r.data, denOptions)
                   IN  /\ denPc' = "pool"
                       /\ denOptions' = WithDNSDefaults(denOptions)
                       /\ denHosts' = hosts
                       /\ denWorkers' = [i \in DOMAIN hosts |-> "waiting"]
                       /\ denLocal' = [i \in DOMAIN hosts |-> Nil]
                       /\ denResults' = [Domain |-> Domain, Records |-> <<>>,
                                         TotalQueried |-> Len(hosts),
                                         Summary |-> calculateDNSSummary(<<>>)]
    /\ UNCHANGED <<denCtx, denSem, denAsked, denMu, files, clock, saves, queryVars, cmdVars,
                   fnVars, aggVars, probeVars, verVars, dnsVars>>

\* goroutine k, line 150: semaphore <- struct{}{}, then queryDNSInfo starts
DNSAcquire(k) ==
    /\ denPc = "pool"
    /\ denWorkers[k] = "waiting"
    /\ denSem < denOptions.Concurrency
    /\ denSem' = denSem + 1
    /\ denWorkers' = [denWorkers EXCEPT ![k] = "querying"]
    /\ UNCHANGED <<denPc, denOptions, denCtx, denHosts, denResults, denAsked, denMu,
                   denLocal, storeVars, queryVars, cmdVars, fnVars, aggVars, probeVars, verVars, dnsVars>>

\* goroutine k, line 153: queryDNSInfo returned the host's record
DNSQueryReturns(k) ==
    /\ denPc = "pool"
    /\ denWorkers[k] = "querying"
    /\ \E failing \in FailingTypeSets :
         LET sub    == denHosts[k].Name
             blocks == QueryBlocks([NewDNSInfo EXCEPT !.Subdomain = sub], denOptions,
                                   failing, 1)
         IN  /\ \E provider \in identifyCloudProvider(blocks) :
                   denLocal' = [denLocal EXCEPT ![k] =
                                   [info |-> [blocks EXCEPT !.CloudProvider = provider],
                                    records |-> <<>>]]
             /\ denAsked' = denAsked \cup LookupsOf(sub, denOptions, failing, denCtx)
    /\ denWorkers' = [denWorkers EXCEPT ![k] = "locking"]
    /\ UNCHANGED <<denPc, denOptions, denCtx, denHosts, denSem, denResults, denMu,
                   storeVars, queryVars, cmdVars, fnVars, aggVars, probeVars, verVars, dnsVars>>

MutexIgnored(mu) == TRUE

\* sync.Mutex: Lock returns only while no goroutine holds the mutex
MutexFree(mu) == mu = {}

\* goroutine k, lines 155-156: mu.Lock() returns and append reads results.Records
DNSLock(k) ==
    /\ denPc = "pool"
    /\ denWorkers[k] = "locking"
    /\ MutexFree(denMu)
    /\ denMu' = denMu \cup {k}
    /\ denLocal' = [denLocal EXCEPT ![k].records = denResults.Records]
    /\ denWorkers' = [denWorkers EXCEPT ![k] = "appending"]
    /\ UNCHANGED <<denPc, denOptions, denCtx, denHosts, denSem, denResults, denAsked,
                   storeVars, queryVars, cmdVars, fnVars, aggVars, probeVars, verVars, dnsVars>>

\* goroutine k, lines 156-157 and the deferred calls: the grown slice is stored in
\* results.Records, mu.Unlock(), the semaphore slot is released, wg.Done()
DNSAppend(k) ==
    /\ denPc = "pool"
    /\ denWorkers[k] = "appending"
    /\ denResults' = [denResults EXCEPT
                         !.Records = Append(denLocal[k].records, denLocal[k].info)]
    /\ denMu' = denMu \ {k}
    /\ denSem' = denSem - 1
    /\ denWorkers' = [denWorkers EXCEPT ![k] = "done"]
    /\ UNCHANGED <<denPc, denOptions, denCtx, denHosts, denAsked, denLocal,
                   storeVars, queryVars, cmdVars, fnVars, aggVars, probeVars, verVars, dnsVars>>

\* lines 160-166: wg.Wait() returned; the summary is computed and EnumerateDNS
\* returns the results
ReturnEnumerateDNS ==
    /\ denPc = "pool"
    /\ \A k \in DOMAIN denWorkers : denWorkers[k] = "done"
    /\ denResults' = [denResults EXCEPT !.Summary = calculateDNSSummary(denResults.Records)]
    /\ denPc' = "returned"
    /\ UNCHANGED <<denOptions, denCtx, denHosts, denWorkers, denSem, denAsked,
                   denMu, denLocal, storeVars, queryVars, cmdVars, fnVars, aggVars, probeVars, verVars, dnsVars>>

\* runReconDNS line 908: SaveDNSResults(domain, results)
SaveDNSResults ==
    /\ denPc = "returned"
    /\ \E outcome \in SaveOutcomes :
         /\ files' = SaveResults(files, "dns", clock, denResults, outcome)
         /\ lastOp' = SaveOp("dns", outcome, denResults)
    /\ saves' = saves + 1
    /\ denPc' = "saved"
    /\ UNCHANGED <<denOptions, denCtx, denHosts, denWorkers, denSem, denResults, denAsked,
                   denMu, denLocal, clock, queryVars, cmdVars, fnVars, aggVars, probeVars, verVars, dnsVars>>

NextDNSEnum ==
    \/ CallEnumerateDNS
    \/ \E k \in DOMAIN denWorkers : DNSAcquire(k)
    \/ \E k \in DOMAIN denWorkers : DNSQueryReturns(k)
    \/ \E k \in DOMAIN denWorkers : DNSLock(k)
    \/ \E k \in DOMAIN denWorkers : DNSAppend(k)
    \/ ReturnEnumerateDNS
    \/ SaveDNSResults

-----------------------------------------------------------------------------
(* calculateDNSSummary called on its own *)

IdleSummary ==
    /\ sumRecords = <<>>
    /\ summary = Nil

InitSummary ==
    /\ sumRecords \in SummaryInputs
    /\ summary = Nil

\* one call of calculateDNSSummary
CalculateDNSSummary ==
    /\ summary = Nil
    /\ summary' = calculateDNSSummary(sumRecords)
    /\ UNCHANGED <<sumRecords, selVars, expVars, normVars, nonFnVars>>

NextSummary == CalculateDNSSummary

-----------------------------------------------------------------------------
(* The two latest-snapshot selectors called on the same results directory *)

\* the files a domain's results directory is made of: snapshots the tool saved
\* at three different seconds (the last one cut short by a failed write), a DNS
\* result saved last, and two copies of a snapshot made by hand in the directory
SelectorFilePool ==
    MapPut(MapPut(MapPut(MapPut(MapPut(MapPut(EmptyMap,
        FileName("subdomains", 0), EnumeratedSnapshot(1)),
        FileName("subdomains", 1), EnumeratedSnapshot(2)),
        FileName("subdomains", 2), Partial(EnumeratedSnapshot(3))),
        FileName("dns", 3), [dns |-> TRUE]),
        TrimSuffix(FileName("subdomains", 0), ".json") \o "_old.json", EnumeratedSnapshot(0)),
        "subdomains_latest.json", EnumeratedSnapshot(0))

\* every directory holding some of these files
SelectorDirs ==
    {[f \in names |-> SelectorFilePool[f]] : names \in SUBSET DOMAIN SelectorFilePool}

IdleSelectors ==
    /\ selLoaded = Nil
    /\ selLatest = Nil

InitSelectors ==
    /\ files \in SelectorDirs
    /\ clock = 4
    /\ saves = 0
    /\ lastOp = NoOp
    /\ selLoaded = Nil
    /\ selLatest = Nil

\* verify and DNS enumeration: LoadLatestResult(domain, "subdomains", &results)
CallLoadLatestResult ==
    /\ selLoaded = Nil
    /\ selLoaded' = LoadLatestResult(files, "subdomains")
    /\ UNCHANGED <<selLatest, sumVars, expVars, normVars, nonFnVars>>

\* query, view and export: GetLatestSubdomainResult(domain)
CallGetLatestSubdomainResult ==
    /\ selLatest = Nil
    /\ \E listing \in ListResultsForDomain(files) :
         selLatest' = GetLatestSubdomainResult(files, listing)
    /\ UNCHANGED <<selLoaded, sumVars, expVars, normVars, nonFnVars>>

NextSelectors == CallLoadLatestResult \/ CallGetLatestSubdomainResult

-----------------------------------------------------------------------------
(* recon results export: the export filter and the count that is reported *)

ExportKeepsAnySource(sub, options) ==
    /\ ~(options.AliveOnly /\ (sub.Verified = Nil \/ sub.Verified.Status # "alive"))
    /\ ~(options.DeadOnly /\ (sub.Verified = Nil \/ sub.Verified.Status # "dead"))
    /\ ~(options.StatusCode # 0
          /\ (\/ sub.Verified = Nil
              \/ sub.Verified.HTTP = Nil
              \/ sub.Verified.HTTP.StatusCode # options.StatusCode))

\* filterSubdomains lines 50-80: no `continue` is taken for sub
ExportKeeps(sub, options) ==
    /\ ~(options.AliveOnly /\ (sub.Verified = Nil \/ sub.Verified.Status # "alive"))
    /\ ~(options.DeadOnly /\ (sub.Verified = Nil \/ sub.Verified.Status # "dead"))
    /\ ~(options.StatusCode # 0
          /\ (\/ sub.Verified = Nil
              \/ sub.Verified.HTTP = Nil
              \/ sub.Verified.HTTP.StatusCode # options.StatusCode))
    /\ ~(options.Source # ""
          /\ ~\E i \in DOMAIN sub.DiscoveredBy : sub.DiscoveredBy[i] = options.Source)

\* filterSubdomains: the loop appends the kept hosts in order
RECURSIVE filterSubdomains(_, _)
filterSubdomains(subdomains, options) ==
    IF subdomains = <<>> THEN <<>>
    ELSE IF ExportKeeps(Head(subdomains), options)
    THEN <<Head(subdomains)>> \o filterSubdomains(Tail(subdomains), options)
    ELSE filterSubdomains(Tail(subdomains), options)

IdleExport == exportOut = Nil

\* the same directories and filter options as the queries
InitExport ==
    /\ InitQuery
    /\ exportOut = Nil

\* runReconResultsExport with the csv or json format: load the latest snapshot,
\* write the filtered hosts (ExportToCSV / ExportToJSON), then count the hosts
\* QuerySubdomains selects with the same options
RunReconResultsExport ==
    /\ exportOut = Nil
    /\ \E listing, listing2 \in ListResultsForDomain(files) :
         LET result   == GetLatestSubdomainResult(files, listing)
             filtered == QuerySubdomains(files, queryOptions, listing2)
         IN  exportOut' =
               IF result.err # "" THEN [err |-> "failed to load results", written |-> <<>>,
                                        exportedCount |-> 0]
               ELSE IF filtered.err # ""
               THEN [err |-> "failed to count filtered subdomains",
                     written |-> filterSubdomains(result.data.Subdomains, queryOptions),
                     exportedCount |-> 0]
               ELSE [err |-> "",
                     written |-> filterSubdomains(result.data.Subdomains, queryOptions),
                     exportedCount |-> Len(filtered.hosts)]
    /\ UNCHANGED <<sumVars, selVars, normVars, nonFnVars>>

NextExport == RunReconResultsExport

-----------------------------------------------------------------------------
(* Name normalization called on its own: RemoveWildcards and CleanDomains *)

\* longest raw list handed to the normalization
MaxRawNames == 3

\* raw names with every combination of blanks and wildcard marker
NormNames == {"a.ex", " a.ex ", "*.b.ex", " *.a.ex", "*. ", "*.*.c.ex"}

IdleNormalize ==
    /\ normRaw = <<>>
    /\ normOut = Nil

InitNormalize ==
    /\ normRaw \in SeqsUpTo(NormNames, MaxRawNames)
    /\ normOut = Nil

\* one call of RemoveWildcards and one of CleanDomains on the same list
CallCleanDomains ==
    /\ normOut = Nil
    /\ normOut' = [removed |-> RemoveWildcards(normRaw), cleaned |-> CleanDomains(normRaw)]
    /\ UNCHANGED <<normRaw, sumVars, selVars, expVars, nonFnVars>>

NextNormalize == CallCleanDomains

IdleFn == IdleSummary /\ IdleSelectors /\ IdleExport /\ IdleNormalize

\* no query, no command and no DNS enumeration is running
IdleExt == IdleQuery /\ IdleCmd /\ IdleDNSEnum /\ IdleFn

-----------------------------------------------------------------------------
(* Specifications *)

\* recon subdomain: source detection, aggregation, persistence
InitEnum == InitAgg /\ InitStore /\ IdleProbe /\ IdleVerify /\ IdleDNS /\ IdleExt

SpecEnum == InitEnum /\ [][NextEnum]_vars

\* VerifySubdomain on one host, in every modelled network environment
InitProbeRun == IdleAgg /\ InitStore /\ InitProbe /\ IdleVerify /\ IdleDNS /\ IdleExt

SpecProbe == InitProbeRun /\ [][NextProbe]_vars

\* recon verify: load, batch loop, worker pool, persistence
InitVerifyRun == IdleAgg /\ IdleProbe /\ InitVerify /\ IdleDNS /\ IdleExt

SpecVerify == InitVerifyRun /\ [][NextVerify]_vars

\* queryDNSInfo on one host, for every modelled selection and resolver answer
InitDNSRun == IdleAgg /\ InitStore /\ IdleProbe /\ IdleVerify /\ InitDNSQuery /\ IdleExt

SpecDNSQuery == InitDNSRun /\ [][NextDNSQuery]_vars

\* the result store under any sequence of saves and loads
InitStoreOnly == IdleAgg /\ IdleProbe /\ IdleVerify /\ IdleDNS /\ InitStoreRun /\ IdleExt

SpecStore == InitStoreOnly /\ [][NextStore]_vars

\* both commands that persist subdomain snapshots
InitSnapshots ==
    /\ \/ InitAgg /\ InitStore /\ IdleProbe /\ IdleVerify
       \/ IdleAgg /\ IdleProbe /\ InitVerify
    /\ IdleDNS
    /\ IdleExt

NextSnapshots == NextEnum \/ NextVerify

SpecSnapshots == InitSnapshots /\ [][NextSnapshots]_vars

\* QuerySubdomains over every modelled results directory and option set
InitQueryRun ==
    IdleAgg /\ IdleProbe /\ IdleVerify /\ IdleDNS /\ IdleCmd /\ IdleDNSEnum /\ IdleFn
        /\ InitQuery

SpecQuery == InitQueryRun /\ [][NextQuery]_vars

\* one run of each recon command for every modelled target
InitCmdRun ==
    IdleAgg /\ IdleProbe /\ IdleVerify /\ IdleDNS /\ IdleQuery /\ IdleDNSEnum /\ IdleFn
        /\ InitCmd

SpecCommands == InitCmdRun /\ [][NextCmd]_vars

\* EnumerateDNS and the save of its results, under every interleaving of the workers
InitDNSEnumRun ==
    IdleAgg /\ IdleProbe /\ IdleVerify /\ IdleDNS /\ IdleQuery /\ IdleCmd /\ IdleFn
        /\ InitDNSEnum

SpecDNSEnum == InitDNSEnumRun /\ [][NextDNSEnum]_vars

\* the two worker pools: a run of VerifySubdomains or a run of EnumerateDNS
InitPools ==
    /\ IdleAgg
    /\ IdleProbe
    /\ IdleDNS
    /\ IdleQuery
    /\ IdleCmd
    /\ IdleFn
    /\ \/ InitVerify /\ IdleDNSEnum
       \/ IdleVerify /\ InitDNSEnum

NextPools == NextVerify \/ NextDNSEnum

SpecPools == InitPools /\ [][NextPools]_vars

\* calculateDNSSummary over every list of the record pool
InitSummaryRun ==
    IdleAgg /\ InitStore /\ IdleProbe /\ IdleVerify /\ IdleDNS /\ IdleQuery /\ IdleCmd
        /\ IdleDNSEnum /\ IdleSelectors /\ IdleExport /\ IdleNormalize /\ InitSummary

SpecSummary == InitSummaryRun /\ [][NextSummary]_vars

\* both selectors over every directory of the file pool
InitSelectorsRun ==
    IdleAgg /\ IdleProbe /\ IdleVerify /\ IdleDNS /\ IdleQuery /\ IdleCmd /\ IdleDNSEnum
        /\ IdleSummary /\ IdleExport /\ IdleNormalize /\ InitSelectors

SpecSelectors == InitSelectorsRun /\ [][NextSelectors]_vars

\* recon results export over every modelled results directory and option set
InitExportRun ==
    IdleAgg /\ IdleProbe /\ IdleVerify /\ IdleDNS /\ IdleCmd /\ IdleDNSEnum /\ IdleSummary
        /\ IdleSelectors /\ IdleNormalize /\ InitExport

SpecExport == InitExportRun /\ [][NextExport]_vars

\* the normalization over every raw list
InitNormalizeRun ==
    IdleAgg /\ InitStore /\ IdleProbe /\ IdleVerify /\ IdleDNS /\ IdleQuery /\ IdleCmd
        /\ IdleDNSEnum /\ IdleSummary /\ IdleSelectors /\ IdleExport /\ InitNormalize

SpecNormalize == InitNormalizeRun /\ [][NextNormalize]_vars

-----------------------------------------------------------------------------
(* Claims about subdomain enumeration *)

\* EnumerateSubdomains has returned its *SubdomainResults
EnumReturned == aggPc \in {"cmd_save", "returned", "done", "save_failed"}

Hosts == results.Subdomains

\* C1: after EnumerateSubdomains the aggregated host list holds no two entries
\* whose names are equal ignoring case, also across different sources.
C1_NoCaseInsensitiveDuplicates ==
    EnumReturned =>
        \A i, j \in DOMAIN Hosts :
            i # j => ToLower(Hosts[i].Name) # ToLower(Hosts[j].Name)

\* C2: sources_used lists exactly the available sources whose Enumerate call
\* returned without error.
C2_SourcesUsedOnlySuccessful ==
    EnumReturned =>
        Range(results.SourcesUsed) = {s \in DOMAIN enumErr : enumErr[s] = "ok"}

\* a comes before b in case-insensitive order, names that differ only in case
\* ordered by their original casing
CanonicallyBefore(a, b) ==
    \/ StrGreater(ToLower(b), ToLower(a))
    \/ ToLower(a) = ToLower(b) /\ StrGreater(b, a)

\* C12: the host order EnumerateSubdomains produces is a function of the set of
\* reported names: case-insensitive lexicographic order, names that differ only
\* in case ordered by their original casing.
C12_HostOrderIsCanonical ==
    EnumReturned =>
        \A i, j \in DOMAIN Hosts : i < j => CanonicallyBefore(Hosts[i].Name, Hosts[j].Name)

\* the same two case variants in the other order
C12_OtherOrderReached ==
    ~(EnumReturned /\ Len(Hosts) = 2 /\ Hosts[1].Name = "A.EX" /\ Hosts[2].Name = "a.ex")

\* the sources whose successful report holds a name normalizing to the host: the
\* reports are trimmed and stripped of wildcards, names are compared ignoring case
ReportersOf(h) ==
    {src \in DOMAIN reports :
        \E k \in DOMAIN reports[src] : ToLower(reports[src][k]) = ToLower(h.Name)}

NoRepeats(q) == \A a, b \in DOMAIN q : a # b => q[a] # q[b]

\* C13: for every aggregated host, discovered_by holds each source that
\* successfully reported a name normalizing to the host exactly once and no
\* other source.
C13_ProvenanceIsSourceSet ==
    EnumReturned =>
        \A i \in DOMAIN Hosts :
            /\ NoRepeats(Hosts[i].DiscoveredBy)
            /\ Range(Hosts[i].DiscoveredBy) = ReportersOf(Hosts[i])

\* what the merge loop does keep: no source twice, and exactly the sources that
\* reported the host's name in the same spelling
ProvenanceOfExactSpelling ==
    EnumReturned =>
        \A i \in DOMAIN Hosts :
            /\ NoRepeats(Hosts[i].DiscoveredBy)
            /\ Range(Hosts[i].DiscoveredBy) =
                  {src \in DOMAIN reports : Hosts[i].Name \in Range(reports[src])}

\* discovered_by only grows while the sources are processed
ProvenanceOnlyGrows ==
    [][\A k \in DOMAIN subdomainMap :
          /\ k \in DOMAIN subdomainMap'
          /\ Len(subdomainMap'[k].DiscoveredBy) >= Len(subdomainMap[k].DiscoveredBy)
          /\ SubSeq(subdomainMap'[k].DiscoveredBy, 1, Len(subdomainMap[k].DiscoveredBy))
                = subdomainMap[k].DiscoveredBy]_vars

\* a step taken inside the source loop stays in the loop on the next source or
\* ends it with the result returned
LoopStepGoesOn ==
    aggPc \in {"cmd_loop", "lib_loop"} =>
        (aggPc' \in {"cmd_loop", "lib_loop", "cmd_save", "returned"}
           /\ (srcIdx' > srcIdx \/ EnumReturned'))

\* C14: source failures never fail the run: whichever sources return an error,
\* the loop of EnumerateSubdomains goes on to the next source or to the return
\* of the result, never to an error, and the result holds every normalized
\* name returned by each source that succeeded.
C14_SourceFailuresAbsorbed ==
    /\ [][LoopStepGoesOn]_vars
    /\ [](EnumReturned =>
            \A src \in DOMAIN reports : \A k \in DOMAIN reports[src] :
                \E i \in DOMAIN Hosts : /\ Hosts[i].Name = reports[src][k]
                                       /\ src \in Range(Hosts[i].DiscoveredBy))

\* C14 witness: a run returned after one source failed and two others
\* reported names
C14_Witness ==
    /\ EnumReturned
    /\ \E src \in DOMAIN enumErr : enumErr[src] = "error"
    /\ \E a, b \in DOMAIN reports : a # b /\ reports[a] # <<>> /\ reports[b] # <<>>
    /\ Len(Hosts) >= 2

\* C15: when no source in the list is available, aggregation fails with a
\* configuration error: it never returns a successful result.
C15_NoSourceFailsFast ==
    EnumReturned => \E i \in DOMAIN sources : IsAvailable(sources[i])

-----------------------------------------------------------------------------
(* Claims about the liveness verifier *)

\* a protocol answers when client.Do returns a response and no error
Answers(server) == ~ClientDo(server, 0).err

\* C3: VerifySubdomain follows the per-host state machine: dns is always set; a
\* failed or empty resolution gives status dead, http nil and no HTTP request; a
\* resolved host has http set and is alive iff http.accessible, which is so iff
\* HTTPS or HTTP answered; no status other than alive and dead is produced.
C3_PerHostStateMachine ==
    /\ probeResult.Status \in {"alive", "dead"}
    /\ probeEnv.dns # "ok" => httpLog = <<>>
    /\ probePc = "returned" =>
         /\ probeResult.DNS # Nil
         /\ IF probeEnv.dns # "ok"
            THEN /\ ~probeResult.DNS.Resolves
                 /\ probeResult.Status = "dead"
                 /\ probeResult.HTTP = Nil
            ELSE /\ probeResult.DNS.Resolves
                 /\ probeResult.HTTP # Nil
                 /\ probeResult.Status = "alive" <=> probeResult.HTTP.Accessible
                 /\ probeResult.HTTP.Accessible <=>
                        (Answers(probeEnv.https) \/ Answers(probeEnv.http))

\* C3 witness: a host that resolves and refuses both protocols came out dead
C3_Witness ==
    /\ probePc = "returned"
    /\ probeResult.DNS.Resolves
    /\ probeResult.HTTP # Nil
    /\ ~probeResult.HTTP.Accessible
    /\ probeResult.Status = "dead"
    /\ Len(httpLog) = 2

\* C5: a redirect chain of at most 3 hops is followed to its final response; a
\* longer chain stops at the cap and is classified from the redirect seen there.
C5_RedirectsFollowedUpToCap ==
    probePc = "returned" /\ probeEnv.dns = "ok" =>
        LET server == probeEnv.https
            http   == probeResult.HTTP
        IN  /\ (server.ends = "response" /\ server.hops <= RedirectCap) =>
                   (http.Accessible /\ http.URL = "https://a.ex" /\ http.StatusCode = 200)
            /\ (server.ends = "loop" \/ server.hops > RedirectCap) =>
                   (http.Accessible /\ http.URL = "https://a.ex" /\ http.StatusCode = 302)

\* What the code does instead: fewer than RedirectCap redirects are followed to
\* the final response; from RedirectCap redirects on, the RedirectCap-th response
\* (a redirect) is the one classified.
ProbeStopsAtThirdRequest ==
    probePc = "returned" /\ probeEnv.dns = "ok" =>
        LET server == probeEnv.https
            http   == probeResult.HTTP
        IN  /\ (server.ends = "response" /\ server.hops < RedirectCap) =>
                   (http.Accessible /\ http.StatusCode = 200)
            /\ (server.ends = "loop" \/ server.hops >= RedirectCap) =>
                   (http.Accessible /\ http.StatusCode = 302
                        /\ Len(httpLog) = RedirectCap)

InFlight == Cardinality({k \in DOMAIN workers : workers[k] = "probing"})

\* C4: with pool width W >= 1, at most W VerifySubdomain calls are in flight at
\* every instant, in every interleaving of the workers.
C4_AtMostWInFlight == concurrency >= 1 => InFlight <= concurrency

\* C4 witness: the pool is full while another worker waits for the semaphore
C4_Witness ==
    /\ verPc = "lib_pool"
    /\ concurrency >= 2
    /\ InFlight = concurrency
    /\ \E k \in DOMAIN workers : workers[k] = "spawned"

-----------------------------------------------------------------------------
(* Claims about DNS deep enumeration *)

\* C6: with takeover checking enabled, takeover_risk is true iff the host's CNAME
\* target contains, ignoring case, an entry of the takeover table; the reason then
\* names an entry the target contains; otherwise the reason is empty.
C6_TakeoverIffTableMatch ==
    DNSQueryReturned /\ dnsOptions.CheckTakeover =>
        LET target  == IF dnsInfo.CNAME = <<>> THEN "" ELSE dnsInfo.CNAME[1]
            entries == {e \in takeoverSignatures : Contains(ToLower(target), e)}
        IN  /\ dnsInfo.TakeoverRisk <=> entries # {}
            /\ dnsInfo.TakeoverRisk =>
                   /\ dnsInfo.TakeoverReason # ""
                   /\ \E e \in entries : Contains(dnsInfo.TakeoverReason, e)
            /\ ~dnsInfo.TakeoverRisk => dnsInfo.TakeoverReason = ""

\* C6 witness: a mixed-case CNAME target of a table entry was flagged
C6_Witness ==
    /\ DNSQueryReturned
    /\ dnsOptions.CheckTakeover
    /\ cnameAnswer = "FOO.HerokuApp.COM."
    /\ dnsInfo.TakeoverRisk

-----------------------------------------------------------------------------
(* Claims about persisted snapshots and the result store *)

SummaryKeys == {"verified_total", "verified_alive", "verified_dead"}

SummaryGet(snap, key) == IF key \in DOMAIN snap.Summary THEN snap.Summary[key] ELSE 0

HostsWhere(snap, P(_)) == Cardinality({i \in DOMAIN snap.Subdomains : P(snap.Subdomains[i])})

\* re-deriving a stored subdomains snapshot's counters from its own host list
CountersRederive(snap) ==
    /\ snap.TotalUnique = Len(snap.Subdomains)
    /\ \A source \in (DOMAIN snap.Summary \ SummaryKeys) \cup Range(snap.SourcesUsed) :
         SummaryGet(snap, source) =
             HostsWhere(snap, LAMBDA sub : source \in Range(sub.DiscoveredBy))
    /\ "verified_total" \in DOMAIN snap.Summary =>
         /\ snap.Summary["verified_total"] = Len(snap.Subdomains)
         /\ snap.Summary["verified_alive"] = HostsWhere(snap, IsAlive)
         /\ snap.Summary["verified_dead"] =
                HostsWhere(snap, LAMBDA sub : sub.Verified # Nil /\ sub.Verified.Status = "dead")

CompleteFiles == {f \in DOMAIN files : ~IsPartial(files[f])}

\* C7: every snapshot persisted by enumeration or by verification reproduces its
\* stored counters (total_unique, summary per source, verified_total/alive/dead)
\* when they are re-derived from its own host list.
C7_CountersRederiveFromHosts == \A f \in CompleteFiles : CountersRederive(files[f])

\* C7 witness: a verification snapshot with an alive and a dead host is stored
C7_Witness ==
    \E f \in CompleteFiles :
        /\ "verified_total" \in DOMAIN files[f].Summary
        /\ files[f].Summary["verified_alive"] >= 1
        /\ files[f].Summary["verified_dead"] >= 1

SaveSucceeded == lastOp'.op = "save" /\ lastOp'.outcome = "ok" /\ saves' = saves + 1

\* C8: every successful SaveResults adds one new file and leaves every file
\* written before present and unchanged, whatever the time between two saves.
C8_SaveAddsAFile ==
    [][SaveSucceeded =>
          /\ Cardinality(DOMAIN files') = Cardinality(DOMAIN files) + 1
          /\ \A f \in DOMAIN files : f \in DOMAIN files' /\ files'[f] = files[f]]_vars

\* time.Parse("20060102_150405") of the timestamp in a stored file's name, as
\* seconds of the day
FileTimestamp(f, toolName) ==
    LET ts == SubSeq(f, Len(toolName) + 2, Len(f) - Len(".json"))
    IN  Num2(ts, 10) * 3600 + Num2(ts, 12) * 60 + Num2(ts, 14)

StoredFiles(toolName) == {f \in DOMAIN files : HasPrefix(f, toolName \o "_")}

\* what loading the stored file with the greatest filename timestamp gives
NewestByTimestamp(toolName) ==
    IF StoredFiles(toolName) = {} THEN [err |-> "no results found", data |-> Nil]
    ELSE LET newest == CHOOSE f \in StoredFiles(toolName) :
                          \A g \in StoredFiles(toolName) :
                              FileTimestamp(g, toolName) <= FileTimestamp(f, toolName)
         IN  IF IsPartial(files[newest])
             THEN [err |-> "failed to unmarshal results", data |-> Nil]
             ELSE [err |-> "", data |-> files[newest]]

\* C9: LoadLatestResult returns the file with the greatest filename timestamp
\* among the stored files of the tool, and right after a successful SaveResults
\* it returns the data just saved.
C9_LoadLatestIsNewest ==
    /\ lastOp.op = "load" =>
         [err |-> lastOp.outcome, data |-> lastOp.data] = NewestByTimestamp(lastOp.tool)
    /\ (lastOp.op = "save" /\ lastOp.outcome = "ok") =>
         LoadLatestResult(files, lastOp.tool) = [err |-> "", data |-> lastOp.data]

\* C9 witness: a load picked among several stored files of its tool
C9_Witness ==
    /\ lastOp.op = "load"
    /\ lastOp.outcome = ""
    /\ Cardinality(StoredFiles(lastOp.tool)) >= 2
    /\ \E f \in StoredFiles(lastOp.tool) : lastOp.data # files[f]

\* C10: a failed or interrupted SaveResults leaves no partial snapshot file, so
\* LoadLatestResult never reads one.
C10_NoPartialSnapshot == \A f \in DOMAIN files : ~IsPartial(files[f])

-----------------------------------------------------------------------------
(* Queries *)

IsAliveHost(h) == h.Verified # Nil /\ h.Verified.Status = "alive"

IsDeadHost(h) == h.Verified # Nil /\ h.Verified.Status = "dead"

HasStatusCode(h, code) ==
    h.Verified # Nil /\ h.Verified.HTTP # Nil /\ h.Verified.HTTP.StatusCode = code

\* every enabled predicate of the options holds of the host
SatisfiesAll(h, o) ==
    /\ o.AliveOnly => IsAliveHost(h)
    /\ o.DeadOnly => IsDeadHost(h)
    /\ o.StatusCode # 0 => HasStatusCode(h, o.StatusCode)
    /\ o.Source # "" => o.Source \in Range(h.DiscoveredBy)

\* C11: QuerySubdomains returns exactly the hosts of the latest subdomains
\* snapshot, in snapshot order, that satisfy every enabled predicate; alive-only
\* with dead-only gives the empty list and an unverified host never passes
\* alive-only, dead-only or a status filter.
C11_QueryIsConjunctiveFilter ==
    queryOut # Nil =>
        LET latest == NewestByTimestamp("subdomains")
        IN  /\ (queryOut.err = "") = (latest.err = "")
            /\ latest.err = "" =>
                  queryOut.hosts =
                      SelectSeq(latest.data.Subdomains,
                                LAMBDA h : SatisfiesAll(h, queryOptions))
            /\ (queryOptions.AliveOnly /\ queryOptions.DeadOnly) => queryOut.hosts = <<>>
            /\ (queryOptions.AliveOnly \/ queryOptions.DeadOnly
                  \/ queryOptions.StatusCode # 0) =>
                  \A i \in DOMAIN queryOut.hosts : queryOut.hosts[i].Verified # Nil

\* C11 witness: a query with two predicates enabled kept one host of a snapshot
\* of two and dropped the other
C11_Witness ==
    /\ queryOut # Nil
    /\ queryOut.err = ""
    /\ queryOptions.AliveOnly
    /\ queryOptions.Source # ""
    /\ Len(queryOut.hosts) = 1
    /\ Len(NewestByTimestamp("subdomains").data.Subdomains) = 2

-----------------------------------------------------------------------------
(* The commands *)

\* C16: in each stage an empty or malformed target is rejected with an error
\* before any work starts: nothing is loaded, no process or probe is started
\* and no file is written.
C16_MalformedTargetRejectedFirst ==
    (cmdPc # "idle" /\ ValidateDomain(cmdTarget) # "") =>
        /\ cmdWork = <<>>
        /\ cmdPc \in {"start", "returned"}
        /\ cmdPc = "returned" => cmdReturn # ""

\* the stages that do call ValidateDomain first
ValidatingStagesRejectFirst ==
    (cmdName \in {"subdomain", "dns"} /\ ValidateDomain(cmdTarget) # "") =>
        /\ cmdWork = <<>>
        /\ cmdPc \in {"start", "returned"}
        /\ cmdPc = "returned" => cmdReturn # ""

\* C17: whenever SaveResults returns an error the command returns an error to
\* its caller and does not report the run as completed.
C17_SaveFailureIsFatal ==
    (cmdPc = "returned" /\ lastOp.op = "save" /\ lastOp.outcome # "ok") => cmdReturn # ""

\* in subdomain enumeration and verification a failed save is fatal
SaveFailureFatalInEnumAndVerify ==
    (cmdPc = "returned" /\ cmdName \in {"subdomain", "verify"}
       /\ lastOp.op = "save" /\ lastOp.outcome # "ok") => cmdReturn # ""

-----------------------------------------------------------------------------
(* DNS enumeration *)

DNSReturned == denPc \in {"returned", "saved"}

\* the record type is among the requested ones
Requested(type) ==
    \E i \in DOMAIN denOptions.RecordTypes : ToLower(denOptions.RecordTypes[i]) = ToLower(type)

RecordsOf(host) ==
    {i \in DOMAIN denResults.Records : denResults.Records[i].Subdomain = host}

\* C18: a failed lookup of one record type of one host blocks nothing: the run
\* returns exactly one record per queried host (total_queried = number of
\* records), every requested type of every host is queried, a failed type is
\* an empty list and an answered type holds its answer.
C18_FailedLookupIsEmptyList ==
    DNSReturned =>
        /\ Len(denResults.Records) = Len(denHosts)
        /\ denResults.TotalQueried = Len(denResults.Records)
        /\ \A k \in DOMAIN denHosts : Cardinality(RecordsOf(denHosts[k].Name)) = 1
        /\ \A k \in DOMAIN denHosts : \A t \in Range(RecordTypeNames) :
              Requested(t) => \E q \in denAsked : q.host = denHosts[k].Name /\ q.type = t
        /\ \A q \in denAsked : \A i \in RecordsOf(q.host) :
              (denResults.Records[i][q.type] = <<>>) = q.failed

\* C18 witness: two hosts were queried, one host had a lookup fail and another
\* lookup answered, and the other host had every lookup answered
C18_Witness ==
    /\ DNSReturned
    /\ Len(denHosts) = 2
    /\ \E q1, q2 \in denAsked : q1.host = q2.host /\ q1.failed /\ ~q2.failed
    /\ \E k \in DOMAIN denHosts : \A q \in denAsked : q.host = denHosts[k].Name => ~q.failed

\* C19: the persisted record order does not depend on the completion order of
\* the workers: the records of a saved DNS enumeration are in the order of the
\* hosts that were queried.
C19_PersistedOrderIsInputOrder ==
    (denPc = "saved" /\ lastOp.outcome = "ok") =>
        \A i \in DOMAIN lastOp.data.Records :
            lastOp.data.Records[i].Subdomain = denHosts[i].Name

\* the verification side: the hosts of a saved verification are in the order of
\* the snapshot that was loaded
VerifiedOrderIsSnapshotOrder ==
    (verPc = "done" /\ lastOp.op = "save") =>
        /\ Len(lastOp.data.Subdomains) = Len(snapshot.Subdomains)
        /\ \A i \in DOMAIN snapshot.Subdomains :
              lastOp.data.Subdomains[i].Name = snapshot.Subdomains[i].Name

\* C20: every lookup EnumerateDNS issues is bounded by a deadline, the
\* configured per-query timeout.
C20_EveryLookupHasDeadline ==
    \A q \in denAsked : q.deadline # Nil /\ q.deadline = denOptions.Timeout

-----------------------------------------------------------------------------
(* Claims about the two worker pools *)

\* a goroutine of the VerifySubdomains pool took a step
VerifyWorkerStep == InPool /\ verPc' = verPc /\ workers' # workers

\* a step in which a VerifySubdomains worker moves leaves `verified` alone
WorkersOnlySend == VerifyWorkerStep => verified' = verified

\* VerifySubdomains is about to return: the channel is closed and drained
PoolDrained == InPool /\ chanClosed /\ resultsChan = <<>>

\* the hosts of the records collected so far
RecordHosts == [i \in DOMAIN denResults.Records |-> denResults.Records[i].Subdomain]

\* C21: single-writer discipline of both pools. In VerifySubdomains a worker's
\* step never changes the verified slice and no worker's result is lost: when
\* the pool is drained every host carries an outcome. In EnumerateDNS at most one
\* goroutine is between Lock and Unlock, every goroutine that is appending
\* holds the mutex, and when EnumerateDNS returns results.Records holds exactly
\* one record per queried host.
C21_SingleWriterNoLostResult ==
    /\ [][WorkersOnlySend]_vars
    /\ [](PoolDrained => \A k \in DOMAIN verified : verified[k].Verified # Nil)
    /\ [](Cardinality(denMu) <= 1)
    /\ [](\A k \in DOMAIN denWorkers : denWorkers[k] = "appending" => k \in denMu)
    /\ [](DNSReturned =>
            /\ Len(denResults.Records) = Len(denHosts)
            /\ \A k \in DOMAIN denHosts :
                  Cardinality({i \in DOMAIN RecordHosts :
                                  RecordHosts[i] = denHosts[k].Name}) = 1)

\* C21 witness: one goroutine of EnumerateDNS holds the mutex while another one
\* waits in mu.Lock()
C21_Witness ==
    \E j, k \in DOMAIN denWorkers :
        denWorkers[j] = "appending" /\ denWorkers[k] = "locking"

\* the verification pool: two results are in the channel at once and the
\* collecting loop has not taken them yet
TwoResultsQueued == InPool /\ Len(resultsChan) = 2

-----------------------------------------------------------------------------
(* Claims about the DNS summary *)

\* the entries of one record type over all records, as (record, position) pairs
EntriesOf(records, type) ==
    UNION {{<<i, j>> : j \in DOMAIN records[i][type]} : i \in DOMAIN records}

\* every A and AAAA value of the records
AllIPs(records) ==
    UNION {Range(records[i].A) \cup Range(records[i].AAAA) : i \in DOMAIN records}

\* the summary is the one the specification describes for the records
SummaryMatches(sum, records) ==
    /\ sum.TotalA = Cardinality(EntriesOf(records, "A"))
    /\ sum.TotalAAAA = Cardinality(EntriesOf(records, "AAAA"))
    /\ sum.TotalMX = Cardinality(EntriesOf(records, "MX"))
    /\ sum.TotalTXT = Cardinality(EntriesOf(records, "TXT"))
    /\ sum.TotalCNAME = Cardinality(EntriesOf(records, "CNAME"))
    /\ sum.TotalNS = Cardinality(EntriesOf(records, "NS"))
    /\ sum.UniqueIPs = Cardinality(AllIPs(records))
    /\ NoRepeats(sum.CloudProviders)
    /\ Range(sum.CloudProviders) =
          {records[i].CloudProvider : i \in DOMAIN records} \ {""}
    /\ sum.TakeoverRisks = Cardinality({i \in DOMAIN records : records[i].TakeoverRisk})

\* C22: calculateDNSSummary returns, for any list of records, per-type totals
\* equal to the summed list lengths, unique_ips equal to the size of the union
\* of all A and AAAA values, cloud_providers equal to the duplicate-free list of
\* the non-empty cloud_provider values and takeover_risks equal to the number of
\* records at risk.
C22_SummaryIsAggregateOfRecords ==
    summary # Nil => SummaryMatches(summary, sumRecords)

\* C22 witness: a summary was computed over records that share an address and a
\* provider, with a record at takeover risk among them
C22_Witness ==
    /\ summary # Nil
    /\ \E i, j \in DOMAIN sumRecords :
          /\ i # j
          /\ Range(sumRecords[i].A) \cap Range(sumRecords[j].A) # {}
          /\ sumRecords[i].CloudProvider = sumRecords[j].CloudProvider
          /\ sumRecords[i].CloudProvider # ""
    /\ \E i \in DOMAIN sumRecords : sumRecords[i].TakeoverRisk
    /\ summary.UniqueIPs < summary.TotalA + summary.TotalAAAA

\* the summary EnumerateDNS returns is the summary of the records it returns
ReturnedSummaryMatches ==
    DNSReturned => SummaryMatches(denResults.Summary, denResults.Records)

-----------------------------------------------------------------------------
(* Claims about cloud-provider identification *)

\* the first list of CNAME, NS that has a value matching the provider table
DecidingValues(info) ==
    IF FirstMatchProviders(info.CNAME) # {} THEN info.CNAME ELSE info.NS

\* C23: identification is first-match-wins and deterministic. The recorded
\* cloud_provider is a provider whose pattern occurs, ignoring case, in the first
\* matching value, CNAME values before NS values, and it is the only provider the
\* identification can record for this host record; likewise the recorded
\* takeover_reason is the only one the takeover check can record for the CNAME.
C23_IdentificationIsDeterministic ==
    DNSQueryReturned =>
        /\ dnsInfo.CloudProvider \in identifyCloudProvider(dnsInfo)
        /\ dnsInfo.CloudProvider # "" =>
              dnsInfo.CloudProvider \in FirstMatchProviders(DecidingValues(dnsInfo))
        /\ \A provider \in identifyCloudProvider(dnsInfo) :
              provider = dnsInfo.CloudProvider
        /\ dnsInfo.TakeoverRisk =>
              \A service \in TakeoverMatches(cnameAnswer) :
                  dnsInfo.TakeoverReason = TakeoverReasonFor(service)

\* the order and matching rules alone: a CNAME match is recorded before any NS
\* match, matching ignores case, and without a match nothing is recorded
ProviderComesFromFirstMatch ==
    DNSQueryReturned =>
        /\ dnsInfo.CloudProvider \in identifyCloudProvider(dnsInfo)
        /\ (\E i \in DOMAIN dnsInfo.CNAME : ProvidersMatching(dnsInfo.CNAME[i]) # {}) =>
              \E i \in DOMAIN dnsInfo.CNAME :
                  dnsInfo.CloudProvider \in ProvidersMatching(dnsInfo.CNAME[i])
        /\ dnsInfo.CloudProvider = "" <=>
              \A i \in DOMAIN (dnsInfo.CNAME \o dnsInfo.NS) :
                  ProvidersMatching((dnsInfo.CNAME \o dnsInfo.NS)[i]) = {}

\* a host record whose values match one provider only is identified the same
\* way on every run
SingleMatchIsDeterministic ==
    (DNSQueryReturned
        /\ \A i \in DOMAIN (dnsInfo.CNAME \o dnsInfo.NS) :
              Cardinality(ProvidersMatching((dnsInfo.CNAME \o dnsInfo.NS)[i])) <= 1) =>
        \A provider \in identifyCloudProvider(dnsInfo) : provider = dnsInfo.CloudProvider

-----------------------------------------------------------------------------
(* Claims about the record-type selection *)

\* some requested record type is outside A, AAAA, CNAME, MX, TXT, NS
InvalidSelection ==
    /\ denOptions # Nil
    /\ \E i \in DOMAIN denOptions.RecordTypes :
          ~contains(RecordTypeNames, denOptions.RecordTypes[i])

\* C24: a record-type selection with a type outside {A, AAAA, CNAME, MX, TXT,
\* NS} is rejected before any work: no DNS query is issued, EnumerateDNS does not
\* return results and no snapshot is written.
C24_InvalidSelectionRejected ==
    InvalidSelection =>
        /\ denAsked = {}
        /\ ~DNSReturned
        /\ saves = 0

\* a selection of known types written in lower case is served like the upper
\* case one: every lookup issued is for a requested type
LookupsAreRequestedTypes ==
    \A q \in denAsked : contains(denOptions.RecordTypes, q.type)

-----------------------------------------------------------------------------
(* Claims about the frame of a verification run *)

\* the snapshot a finished verification run saved
SavedVerification == lastOp.data.Subdomains

\* the saved snapshot has the loaded hosts in the loaded order, each with its
\* name, discovered_by and first_seen and with an outcome of a probe of its own name
VerificationMergesOutcomes ==
    (verPc = "done" /\ lastOp.op = "save") =>
        /\ Len(SavedVerification) = Len(snapshot.Subdomains)
        /\ \A i \in DOMAIN snapshot.Subdomains :
              /\ SavedVerification[i].Name = snapshot.Subdomains[i].Name
              /\ SavedVerification[i].DiscoveredBy = snapshot.Subdomains[i].DiscoveredBy
              /\ SavedVerification[i].FirstSeen = snapshot.Subdomains[i].FirstSeen
              /\ SavedVerification[i].Verified # Nil
              /\ \E env \in PoolEnvs :
                    SavedVerification[i].Verified =
                        VerifySubdomain(snapshot.Subdomains[i].Name, env)

\* a step keeps every stored file as it is
StoredFilesKept == \A f \in DOMAIN files : f \in DOMAIN files' /\ files'[f] = files[f]

\* C25: a verification run produces one outcome per input host and changes
\* nothing else: the saved snapshot has the loaded hosts in the loaded order with
\* name, discovered_by and first_seen unchanged and the outcome of each host's
\* own probe attached, and no step of the run modifies a file that was already
\* stored.
C25_VerificationChangesNothingElse ==
    /\ [](VerificationMergesOutcomes)
    /\ [][StoredFilesKept]_vars

\* a run that saves in a later second than the loaded snapshot was written
\* keeps the stored files
LaterSaveKeepsStoredFiles == (clock > 0) => StoredFilesKept

StoredFilesKeptAfterASecond == [][LaterSaveKeepsStoredFiles]_vars

-----------------------------------------------------------------------------
(* Claims about the termination of a verification run *)

\* a return of VerifySubdomains to the batch loop moves the loop variable on
BatchLoopAdvances ==
    (verPc = "cmd_pool" /\ verPc' = "batch_loop") => batchIdx' > batchIdx

\* a goroutine waiting to send on the semaphore can get a slot now or once a
\* probing goroutine has given its slot back
NoWorkerBlockedForever ==
    (InPool /\ \E k \in DOMAIN workers : workers[k] = "spawned") =>
        \/ SemaphoreHasRoom
        \/ \E k \in DOMAIN workers : workers[k] = "probing"

\* the results channel has room for every send: its buffer holds one slot per
\* host of the call
NoSendBlocks == InPool => Len(resultsChan) <= Len(verified)

\* C26: for every host list and every concurrency value >= 0 the verification
\* run goes on to its end: no goroutine is blocked for good on the semaphore or
\* on the results channel and every pass of the batch loop advances it.
C26_VerificationRunGoesOn ==
    /\ [](NoWorkerBlockedForever)
    /\ [](NoSendBlocks)
    /\ [][BatchLoopAdvances]_vars

\* with a concurrency of at least one the pool and the batch loop go on
PositiveConcurrencyGoesOn ==
    /\ [](concurrency >= 1 => NoWorkerBlockedForever /\ NoSendBlocks)
    /\ [][concurrency >= 1 => BatchLoopAdvances]_vars

\* the batch loop with a concurrency of zero: a pass over an empty batch has
\* returned and the loop variable still stands at the first host
BatchLoopStandsStill ==
    /\ concurrency = 0
    /\ verPc = "batch_loop"
    /\ batchIdx = 0
    /\ progress # Nil
    /\ chanClosed
    /\ Len(snapshot.Subdomains) > 0

-----------------------------------------------------------------------------
(* Claims about the two latest-snapshot selectors *)

\* both selectors have run
BothSelected == selLoaded # Nil /\ selLatest # Nil

\* the two calls loaded the same file, or neither loaded one
SelectorsAgree ==
    /\ (selLoaded.err = "") <=> (selLatest.err = "")
    /\ selLoaded.data = selLatest.data

\* C27: for every set of files in the results directory LoadLatestResult(domain,
\* "subdomains") and GetLatestSubdomainResult(domain) load the same file, or both
\* report that there is no result.
C27_SelectorsAgree == BothSelected => SelectorsAgree

\* every file of the directory carries a name SaveResults writes
OnlySavedNames ==
    \A f \in DOMAIN files : \E toolName \in ToolNames, t \in 0..3 : f = FileName(toolName, t)

\* on a directory that holds only files the tool saved the selectors agree
SelectorsAgreeOnSavedFiles == (BothSelected /\ OnlySavedNames) => SelectorsAgree

\* both selectors ran on a directory with two saved snapshots and loaded one
TwoSnapshotsSelected ==
    /\ BothSelected
    /\ OnlySavedNames
    /\ {FileName("subdomains", 0), FileName("subdomains", 1)} \subseteq DOMAIN files
    /\ selLoaded.err = ""

-----------------------------------------------------------------------------
(* Claims about the export filter *)

\* the export wrote its file and reported a count
Exported == exportOut # Nil /\ exportOut.err = ""

\* C28: for every snapshot and every combination of the alive-only, dead-only,
\* status code and source options the export filter selects exactly the hosts,
\* in the same order, that QuerySubdomains selects, and the count reported after
\* the export is the number of hosts written.
C28_ExportFilterIsQueryFilter ==
    Exported =>
        /\ \A listing \in ListResultsForDomain(files) :
              exportOut.written = QuerySubdomains(files, queryOptions, listing).hosts
        /\ exportOut.exportedCount = Len(exportOut.written)

\* C28 witness: an export under a source filter combined with a verification
\* filter wrote some hosts of the snapshot and left others out
C28_Witness ==
    /\ Exported
    /\ queryOptions.Source # ""
    /\ queryOptions.AliveOnly \/ queryOptions.DeadOnly \/ queryOptions.StatusCode # 0
    /\ Len(exportOut.written) > 0
    /\ \E listing \in ListResultsForDomain(files) :
          Len(exportOut.written) < Len(GetLatestSubdomainResult(files, listing).data.Subdomains)

-----------------------------------------------------------------------------
(* Claims about name normalization *)

\* the normalized form of one raw name: surrounding white space removed and a
\* single leading wildcard marker stripped
NormalForm(raw) == TrimSpace(TrimPrefix(TrimSpace(raw), "*."))

\* the normal forms of a raw list, the empty ones dropped
RECURSIVE NormalForms(_)
NormalForms(raws) ==
    IF raws = <<>> THEN <<>>
    ELSE (IF NormalForm(Head(raws)) # "" THEN <<NormalForm(Head(raws))>> ELSE <<>>)
         \o NormalForms(Tail(raws))

\* C29: RemoveWildcards (and CleanDomains through it) maps every raw name to
\* its form without leading or trailing white space and with a single leading
\* "*." stripped, whatever the combination of white space and wildcard, and
\* drops the names that are empty after that.
C29_NormalizationStripsSpaceAndWildcard ==
    normOut # Nil =>
        /\ normOut.removed = NormalForms(normRaw)
        /\ Range(normOut.cleaned) \subseteq Range(NormalForms(normRaw))

\* raw names that do not start with white space are normalized as specified
NormalizationOfLeftTrimmedNames ==
    (normOut # Nil /\ \A i \in DOMAIN normRaw : TrimLeft(normRaw[i]) = normRaw[i]) =>
        /\ normOut.removed = NormalForms(normRaw)
        /\ Range(normOut.cleaned) \subseteq Range(NormalForms(normRaw))

\* no returned name carries white space at either end or is empty
NoSurroundingSpace ==
    normOut # Nil =>
        \A i \in DOMAIN normOut.removed :
            normOut.removed[i] # "" /\ TrimSpace(normOut.removed[i]) = normOut.removed[i]

-----------------------------------------------------------------------------
(* Claims about the hosts a DNS enumeration queries *)

\* the latest subdomains snapshot of the results directory
LatestSnapshot == LoadLatestResult(files, "subdomains")

\* the names of the hosts the options select from a snapshot, in order
SelectedNames(snap, options) ==
    LET picked == SelectSeq(snap.Subdomains,
                            LAMBDA sub : options.AliveOnly =>
                                (sub.Verified # Nil /\ sub.Verified.Status = "alive"))
    IN  [i \in DOMAIN picked |-> picked[i].Name]

\* the selection the run has to query ("none" without a snapshot)
SelectionOfRun ==
    IF LatestSnapshot.err # "" THEN <<>>
    ELSE SelectedNames(LatestSnapshot.data, denOptions)

\* C30: EnumerateDNS queries exactly the hosts of the latest subdomains
\* snapshot that are alive when alive-only is set, and all its hosts otherwise;
\* without a snapshot or with an empty selection it returns an error, issues no
\* DNS query, and no DNS snapshot is saved.
C30_QueriesExactlyTheSelectedHosts ==
    /\ denPc \in {"pool", "returned", "saved"} =>
          /\ SelectionOfRun # <<>>
          /\ [i \in DOMAIN denHosts |-> denHosts[i].Name] = SelectionOfRun
          /\ \A q \in denAsked : q.host \in Range(SelectionOfRun)
    /\ DNSReturned =>
          \A i \in DOMAIN SelectionOfRun : \E q \in denAsked : q.host = SelectionOfRun[i]
    /\ denPc = "error" =>
          /\ SelectionOfRun = <<>>
          /\ denAsked = {}
          /\ saves = 0
          /\ Glob(files, "dns") = <<>>

\* C30 witness: an alive-only run over a snapshot with an alive and a dead host
\* has returned
C30_Witness ==
    /\ DNSReturned
    /\ denOptions.AliveOnly
    /\ Len(SelectionOfRun) = 1
    /\ Len(LatestSnapshot.data.Subdomains) = 2

\* a run that ended with the error of an empty selection: alive-only over a
\* snapshot that was never verified
EmptySelectionRejected ==
    /\ denPc = "error"
    /\ LatestSnapshot.err = ""
    /\ Len(LatestSnapshot.data.Subdomains) > 0

====
